---- MODULE Spec2Model ----
(***************************************************************************)
(* A model of the scheduling tools of smart-scheduler/calendar_tools.py:   *)
(* the retry wrapper safe_api_call, the event locator                      *)
(* find_events_by_name_and_date, the confirmation-gated mutating tools and *)
(* the slot sweep of find_available_slots.                                 *)
(*                                                                         *)
(* Instants are integers (ticks).  The remote calendar is the variable     *)
(* store, a function from backend-issued ids to events.  Python's None is  *)
(* the empty sequence <<>> and a supplied optional argument v is <<v>>.    *)
(* A dict is a record; the free-text fields of the result dicts (message,  *)
(* confirmation_prompt, suggestion, debug, ...) carry no decision and are  *)
(* left out, except where their construction can raise.                    *)
(***************************************************************************)
EXTENDS Integers, Sequences, FiniteSets, TLC

\* ------------------------------------------------------------------ bounds
\* ids the backend issues during a run (events ever inserted)
MaxIds == 2
\* instants of the tool model are 0..MaxTime
MaxTime == 2
\* instants of the slot sweep are 0..MaxSlotTime
MaxSlotTime == 4
\* busy intervals handed to the slot sweep
MaxBusy == 2

\* ------------------------------------------------------- program constants
max_retries == 3
delay == 1
\* ticks in one day (timedelta(days=1)) and the locator's default horizon
DayLen == 1
DefaultDays == 30

Times == 0..MaxTime
Ids == 1..MaxIds
Days == 0..((MaxTime - 1) \div DayLen)

\* Event titles and query fragments: strings as sequences of characters.
Titles == { <<"a">>, <<"A", "b">>, <<"b">> }

None == <<>>
\* no read was answered, nothing was returned yet
Nothing == [nothing |-> TRUE]
Opt(S) == {None} \cup { <<v>> : v \in S }

VARIABLES
  store,     \* backend: id -> [summary, start, end]
  nextId,    \* backend: the id the next insert is given
  call,      \* the tool call just made: [tool, confirmed, ...] (ghost)
  pre,       \* the store as it was when that call started (ghost)
  found,     \* what the read inside that call returned: the locator's
             \* answer, or the conflict check's (ghost)
  log,       \* the mutations the backend applied during that call (ghost)
  result,    \* what the call returned (or the exception it raised)
  window,    \* slot sweep: the search window [start, end]
  busy,      \* slot sweep: the busy intervals, in backend order
  duration,  \* slot sweep: duration_minutes
  slots,     \* slot sweep: the slots returned
  phase,     \* slot sweep: "input" before the sweep, "done" after
  retry,     \* retry wrapper called on its own: the request and the outcome
             \* of each attempt, then the attempts and sleeps it made (ghost)
  flows      \* callers of the tools side by side: for each, where it stands,
             \* what it asks for and the answer of its last call

vars == <<store, nextId, call, pre, found, log, result,
          window, busy, duration, slots, phase, retry, flows>>
toolVars == <<store, nextId, call, pre, found, log, result>>
slotVars == <<window, busy, duration, slots, phase>>
wrapVars == <<retry>>
flowVars == <<flows>>

\* ----------------------------------------------------------------- python
\* len() of a list or of a dict (number of keys)
PyLen(x) == Cardinality(DOMAIN x)

\* Strings are sequences of characters.
ascii_uppercase ==
  <<"A", "B", "C", "D", "E", "F", "G", "H", "I", "J", "K", "L", "M",
    "N", "O", "P", "Q", "R", "S", "T", "U", "V", "W", "X", "Y", "Z">>
ascii_lowercase ==
  <<"a", "b", "c", "d", "e", "f", "g", "h", "i", "j", "k", "l", "m",
    "n", "o", "p", "q", "r", "s", "t", "u", "v", "w", "x", "y", "z">>
LowerChar(c) ==
  IF \E i \in 1..Len(ascii_uppercase) : ascii_uppercase[i] = c
  THEN ascii_lowercase[CHOOSE i \in 1..Len(ascii_uppercase) : ascii_uppercase[i] = c]
  ELSE c
UpperChar(c) ==
  IF \E i \in 1..Len(ascii_lowercase) : ascii_lowercase[i] = c
  THEN ascii_uppercase[CHOOSE i \in 1..Len(ascii_lowercase) : ascii_lowercase[i] = c]
  ELSE c
\* str.lower()
Lower(s) == [i \in 1..Len(s) |-> LowerChar(s[i])]
\* needle in hay
Contains(needle, hay) ==
  \E i \in 0..(Len(hay) - Len(needle)) :
     SubSeq(hay, i + 1, i + Len(needle)) = needle

\* str.upper() and a capital first letter for every word, for the inputs
Upper(s) == [i \in 1..Len(s) |-> UpperChar(s[i])]
Capitalized(s) ==
  [i \in 1..Len(s) |-> IF i = 1 \/ s[i - 1] = " " THEN UpperChar(s[i]) ELSE s[i]]

\* s.startswith(prefix)
StartsWith(s, prefix) ==
  Len(s) >= Len(prefix) /\ SubSeq(s, 1, Len(prefix)) = prefix

RECURSIVE Remove(_, _)
\* s.replace(old, ""): every occurrence of old, from the left
Remove(s, old) ==
  IF Len(s) < Len(old) THEN s
  ELSE IF SubSeq(s, 1, Len(old)) = old
  THEN Remove(SubSeq(s, Len(old) + 1, Len(s)), old)
  ELSE <<s[1]>> \o Remove(Tail(s), old)

\* \s, and the characters str.strip() removes
IsSpace(c) == c \in {" ", "\t", "\n"}
RECURSIVE LStrip(_)
LStrip(s) == IF s # <<>> /\ IsSpace(s[1]) THEN LStrip(Tail(s)) ELSE s
RECURSIVE RStrip(_)
RStrip(s) ==
  IF s # <<>> /\ IsSpace(s[Len(s)]) THEN RStrip(SubSeq(s, 1, Len(s) - 1)) ELSE s
\* s.strip()
Strip(s) == RStrip(LStrip(s))

digits == <<"0", "1", "2", "3", "4", "5", "6", "7", "8", "9">>
\* \d
IsDigit(c) == \E i \in 1..Len(digits) : digits[i] = c
\* int() of one digit
DigitValue(c) == (CHOOSE i \in 1..Len(digits) : digits[i] = c) - 1
\* int() of a string of one or two digits
IntOf(s) ==
  IF Len(s) = 1 THEN DigitValue(s[1]) ELSE 10 * DigitValue(s[1]) + DigitValue(s[2])

\* ------------------------------------------------------ voice confirmation
confirmation_keywords ==
  << <<"y", "e", "s">>,
     <<"c", "o", "n", "f", "i", "r", "m">>,
     <<"c", "o", "r", "r", "e", "c", "t">>,
     <<"o", "k", "a", "y">>,
     <<"s", "u", "r", "e">>,
     <<"g", "o", " ", "a", "h", "e", "a", "d">>,
     <<"d", "o", " ", "i", "t">>,
     <<"p", "r", "o", "c", "e", "e", "d">>,
     <<"c", "r", "e", "a", "t", "e", " ", "i", "t">>,
     <<"u", "p", "d", "a", "t", "e", " ", "i", "t">>,
     <<"d", "e", "l", "e", "t", "e", " ", "i", "t">>,
     <<"a", "b", "s", "o", "l", "u", "t", "e", "l", "y">>,
     <<"d", "e", "f", "i", "n", "i", "t", "e", "l", "y">>,
     <<"t", "h", "a", "t", "'", "s", " ", "r", "i", "g", "h", "t">>,
     <<"s", "o", "u", "n", "d", "s", " ", "g", "o", "o", "d">>,
     <<"p", "e", "r", "f", "e", "c", "t">>,
     <<"a", "l", "r", "i", "g", "h", "t">>,
     <<"f", "i", "n", "e">>,
     <<"p", "r", "o", "c", "e", "e", "d">>,
     <<"e", "x", "e", "c", "u", "t", "e">>,
     <<"g", "o", " ", "f", "o", "r", " ", "i", "t">>,
     <<"y", "e", "p">>,
     <<"y", "e", "a", "h">>,
     <<"y", "u", "p">>,
     <<"o", "k">>,
     <<"r", "i", "g", "h", "t">>,
     <<"e", "x", "a", "c", "t", "l", "y">>,
     <<"i", "n", "d", "e", "e", "d">>,
     <<"c", "e", "r", "t", "a", "i", "n", "l", "y">>,
     <<"o", "f", " ", "c", "o", "u", "r", "s", "e">>,
     <<"b", "y", " ", "a", "l", "l", " ", "m", "e", "a", "n", "s">>,
     <<"s", "u", "r", "e", " ", "t", "h", "i", "n", "g">>,
     <<"n", "o", " ", "p", "r", "o", "b", "l", "e", "m">>,
     <<"a", "b", "s", "o", "l", "u", "t", "e", "l", "y", " ", "y", "e", "s">>,
     <<"y", "e", "s", " ", "p", "l", "e", "a", "s", "e">>,
     <<"y", "e", "s", " ", "g", "o", " ", "a", "h", "e", "a", "d">>,
     <<"y", "e", "s", " ", "d", "o", " ", "i", "t">>,
     <<"y", "e", "s", " ", "p", "r", "o", "c", "e", "e", "d">> >>

NoPatterns == <<>>

\* confirmation_patterns: each pattern ^w1\s+...wn\s+.* as its words w1..wn
confirmation_patterns ==
  << <<<<"y", "e", "s">>>>,
     <<<<"c", "o", "n", "f", "i", "r", "m">>>>,
     <<<<"c", "o", "r", "r", "e", "c", "t">>>>,
     <<<<"o", "k", "a", "y">>>>,
     <<<<"s", "u", "r", "e">>>>,
     <<<<"p", "r", "o", "c", "e", "e", "d">>>>,
     <<<<"g", "o">>, <<"a", "h", "e", "a", "d">>>>,
     <<<<"d", "o">>, <<"i", "t">>>>,
     <<<<"c", "r", "e", "a", "t", "e">>, <<"i", "t">>>>,
     <<<<"u", "p", "d", "a", "t", "e">>, <<"i", "t">>>>,
     <<<<"d", "e", "l", "e", "t", "e">>, <<"i", "t">>>> >>

RECURSIVE MatchWords(_, _)
\* re.match of a pattern on s: each word in turn, at least one \s after it
\* (\s+ takes all the white space there is), then .* for whatever is left
MatchWords(words, s) ==
  IF words = <<>> THEN TRUE
  ELSE /\ StartsWith(s, Head(words))
       /\ Len(s) > Len(Head(words))
       /\ IsSpace(s[Len(Head(words)) + 1])
       /\ MatchWords(Tail(words), LStrip(SubSeq(s, Len(Head(words)) + 1, Len(s))))

\* input_lower in confirmation_keywords
ExactMatch(input_lower) ==
  \E i \in 1..Len(confirmation_keywords) : confirmation_keywords[i] = input_lower

\* for keyword in confirmation_keywords: if keyword in input_lower
PartialMatch(input_lower) ==
  \E i \in 1..Len(confirmation_keywords) :
     Contains(confirmation_keywords[i], input_lower)

\* for pattern in confirmation_patterns: if re.match(pattern, input_lower)
PatternMatch(input_lower) ==
  \E i \in 1..Len(confirmation_patterns) :
     MatchWords(confirmation_patterns[i], input_lower)

is_voice_confirmation(user_input) ==
  IF user_input = <<>> THEN FALSE
  ELSE \/ ExactMatch(Strip(Lower(user_input)))
       \/ PartialMatch(Strip(Lower(user_input)))
       \/ PatternMatch(Strip(Lower(user_input)))

\* ---------------------------------------------------------------- backend
\* The event resource the backend returns for id i.
Resource(st, i) ==
  [f \in {"id"} \cup DOMAIN st[i] |-> IF f = "id" THEN i ELSE st[i][f]]

RECURSIVE ByStart(_, _)
\* orderBy="startTime": ascending start (ties in id order)
ByStart(st, S) ==
  IF S = {} THEN <<>>
  ELSE LET i == CHOOSE x \in S : \A y \in S :
                  \/ st[x].start < st[y].start
                  \/ st[x].start = st[y].start /\ x <= y
       IN <<Resource(st, i)>> \o ByStart(st, S \ {i})

\* events().list(timeMin, timeMax, singleEvents, orderBy="startTime"): the
\* events that end after timeMin and start before timeMax.
BackendList(st, tmin, tmax) ==
  ByStart(st, {i \in DOMAIN st : st[i].end > tmin /\ st[i].start < tmax})

BackendInsert(st, nid, body) ==
  [i \in DOMAIN st \cup {nid} |-> IF i = nid THEN body ELSE st[i]]

BackendUpdate(st, eid, body) ==
  [st EXCEPT ![eid] = [f \in DOMAIN body \ {"id"} |-> body[f]]]

BackendDelete(st, eid) ==
  [i \in DOMAIN st \ {eid} |-> st[i]]

\* What one attempt at a backend request can do:
\*   "ok"    the request is served and its answer arrives;
\*   "lost"  the transport fails before the request is sent
\*           (the error text holds "extra_headers");
\*   "late"  the request is served but the transport fails before the answer
\*           arrives (the error text holds "websocket");
\* A request for an event the store does not hold is refused (an HttpError).
ErrorText(o) ==
  IF o = "lost" THEN "extra_headers" ELSE IF o = "late" THEN "websocket" ELSE "HttpError"

\* A script gives the outcome of each attempt the wrapper can make at one
\* request.  The wrapper stops at the first attempt that is served, so the
\* outcomes after it are never read and are fixed to "ok".
Scripts(outs) ==
  { s \in [1..max_retries -> outs] :
      \A i \in 1..max_retries : \A j \in 1..max_retries :
         (i < j /\ s[i] = "ok") => s[j] = "ok" }
AllOk == [i \in 1..max_retries |-> "ok"]
ReadScripts == Scripts({"ok", "lost"})
WriteScripts == Scripts({"ok", "lost", "late"})

connection_failure ==
  [error |-> "Connection issue occurred", status |-> "error",
   suggestion |-> "try again"]

\* the dict safe_api_call returns when the retries are used up
connection_error ==
  [error |-> "Connection issue occurred", status |-> "connection_error",
   suggestion |-> "try again"]

\* ---------------------------------------------------------- safe_api_call
\* A request is the closure handed to safe_api_call: [fn |-> ..., args...].
\* An attempt at it yields [exc, ret, store, nextId, log]: exc is "none" or
\* the text of the exception raised, log the mutations the backend applied.
Raise(st, nid, text) ==
  [exc |-> text, ret |-> None, store |-> st, nextId |-> nid, log |-> <<>>]

Return(st, nid, value) ==
  [exc |-> "none", ret |-> value, store |-> st, nextId |-> nid, log |-> <<>>]

\* parse_date_string and the default range: the window the locator lists.
\* A date phrase is modelled by the day it resolves to; None and phrases
\* that resolve to nothing give today 00:00 .. today+30d 23:59:59.999999.
DateWindow(date) ==
  IF date = None
  THEN [min |-> 0, max |-> (DefaultDays + 1) * DayLen]
  ELSE [min |-> date[1] * DayLen, max |-> (date[1] + 1) * DayLen]

\* the filter's test: bidirectional containment of the lowercased strings
\* event.get("summary", default)
GetSummary(event, default) ==
  IF "summary" \in DOMAIN event THEN event.summary ELSE default

\* formatted_event: the event with "summary": event.get("summary", "No title")
FormattedEvent(event) ==
  [f \in DOMAIN event \cup {"summary"} |->
     IF f = "summary"
     THEN GetSummary(event, <<"N", "o", " ", "t", "i", "t", "l", "e">>)
     ELSE event[f]]

NameMatchesTitled(event_name_lower, event_summary) ==
  /\ event_summary # <<>>
  /\ \/ Contains(event_name_lower, event_summary)
     \/ Contains(event_summary, event_name_lower)

NameMatchesOneWay(event_name_lower, event_summary) ==
  Contains(event_name_lower, event_summary)

NameMatches(event_name_lower, event_summary) ==
  \/ Contains(event_name_lower, event_summary)
  \/ Contains(event_summary, event_name_lower)

RECURSIVE FilterNewestFirst(_, _, _, _)
FilterNewestFirst(events, event_name_lower, i, matching_events) ==
  IF i > Len(events) THEN matching_events
  ELSE FilterNewestFirst(events, event_name_lower, i + 1,
         IF NameMatches(event_name_lower, Lower(events[i].summary))
         THEN <<events[i]>> \o matching_events
         ELSE matching_events)

RECURSIVE FilterByName(_, _, _, _)
\* for event in events: ... matching_events.append(formatted_event)
FilterByName(events, event_name_lower, i, matching_events) ==
  IF i > Len(events) THEN matching_events
  ELSE LET event == events[i]
           event_summary == Lower(GetSummary(event, <<>>))
       IN FilterByName(events, event_name_lower, i + 1,
            IF NameMatches(event_name_lower, event_summary)
            THEN Append(matching_events, FormattedEvent(event))
            ELSE matching_events)

_find_events(st, nid, event_name, date, o) ==
  IF o # "ok" THEN Raise(st, nid, ErrorText(o))
  ELSE LET w == DateWindow(date)
           events == BackendList(st, w.min, w.max)
           matching_events == FilterByName(events, Lower(event_name), 1, <<>>)
       IN Return(st, nid,
            [events |-> matching_events,
             total_events_found |-> Len(events),
             matching_events_count |-> Len(matching_events)])

StartsInside(event_start, event_end, requested_start, requested_end) ==
  event_start >= requested_start /\ event_start < requested_end

\* the overlap test of the conflict check
Overlaps(event_start, event_end, requested_start, requested_end) ==
  event_start < requested_end /\ event_end > requested_start

RECURSIVE ConflictLoop(_, _, _, _, _)
ConflictLoop(items, requested_start, requested_end, i, conflicting_events) ==
  IF i > Len(items) THEN conflicting_events
  ELSE ConflictLoop(items, requested_start, requested_end, i + 1,
         IF Overlaps(items[i].start, items[i].end, requested_start, requested_end)
         THEN Append(conflicting_events, items[i])
         ELSE conflicting_events)

_check_availability(st, nid, start_iso, end_iso, o) ==
  IF o # "ok" THEN Raise(st, nid, ErrorText(o))
  ELSE LET items == BackendList(st, start_iso, end_iso)
           conflicting_events == ConflictLoop(items, start_iso, end_iso, 1, <<>>)
       IN Return(st, nid,
            [available |-> Len(conflicting_events) = 0,
             conflicting_events |-> conflicting_events,
             start_time |-> start_iso,
             end_time |-> end_iso])

_create_event_if_free(st, nid, summary, start_iso, end_iso, o) ==
  IF \E i \in DOMAIN st : st[i].start < end_iso /\ st[i].end > start_iso
  THEN Raise(st, nid, "HttpError")
  ELSE [exc |-> "none",
        ret |-> [id |-> nid, summary |-> summary, start |-> start_iso, end |-> end_iso],
        store |-> BackendInsert(st, nid, [summary |-> summary, start |-> start_iso,
                                          end |-> end_iso]),
        nextId |-> nid + 1, log |-> <<[op |-> "insert", id |-> nid]>>]

_create_event(st, nid, summary, start_iso, end_iso, o) ==
  IF o = "lost" THEN Raise(st, nid, ErrorText(o))
  ELSE LET event == [summary |-> summary, start |-> start_iso, end |-> end_iso]
           st2 == BackendInsert(st, nid, event)
           applied == <<[op |-> "insert", id |-> nid]>>
       IN IF o = "late"
          THEN [exc |-> ErrorText(o), ret |-> None, store |-> st2,
                nextId |-> nid + 1, log |-> applied]
          ELSE [exc |-> "none", ret |-> Resource(st2, nid), store |-> st2,
                nextId |-> nid + 1, log |-> applied]

\* [{"email": email} for email in attendees]
EmailDicts(attendees) == [k \in 1..Len(attendees) |-> [email |-> attendees[k]]]

\* the value each argument of an update puts in the event, None for none
Supplied(start_iso, end_iso, summary, description, attendees) ==
  [start |-> start_iso, end |-> end_iso, summary |-> summary,
   description |-> description,
   attendees |-> IF attendees # None THEN <<EmailDicts(attendees[1])>> ELSE None]

\* the event keys an update assigns: those whose argument is not None
SuppliedKeys(start_iso, end_iso, summary, description, attendees) ==
  {k \in {"start", "end", "summary", "description", "attendees"} :
     Supplied(start_iso, end_iso, summary, description, attendees)[k] # None}

FreshBody(event, start_iso, end_iso, summary, description, attendees) ==
  [f \in {"id", "start", "end", "summary"}
          \cup SuppliedKeys(start_iso, end_iso, summary, description, attendees) |->
     IF f \in SuppliedKeys(start_iso, end_iso, summary, description, attendees)
     THEN Supplied(start_iso, end_iso, summary, description, attendees)[f][1]
     ELSE event[f]]

\* "Update only the provided fields": event[key] = value for each argument
\* that is not None, every other key of the fetched event kept
MergeFields(event, start_iso, end_iso, summary, description, attendees) ==
  [f \in DOMAIN event
          \cup SuppliedKeys(start_iso, end_iso, summary, description, attendees) |->
     IF f \in SuppliedKeys(start_iso, end_iso, summary, description, attendees)
     THEN Supplied(start_iso, end_iso, summary, description, attendees)[f][1]
     ELSE event[f]]

_update_event(st, nid, event_id, start_iso, end_iso, summary, description, attendees, o) ==
  IF o = "lost" THEN Raise(st, nid, ErrorText(o))
  ELSE IF event_id \notin DOMAIN st THEN Raise(st, nid, "HttpError")
  ELSE LET event == MergeFields(Resource(st, event_id), start_iso, end_iso, summary,
                                description, attendees)
           st2 == BackendUpdate(st, event_id, event)
           applied == <<[op |-> "update", id |-> event_id]>>
       IN IF o = "late"
          THEN [exc |-> ErrorText(o), ret |-> None, store |-> st2,
                nextId |-> nid, log |-> applied]
          ELSE [exc |-> "none", ret |-> Resource(st2, event_id), store |-> st2,
                nextId |-> nid, log |-> applied]

_delete_event(st, nid, event_id, o) ==
  IF o = "lost" THEN Raise(st, nid, ErrorText(o))
  ELSE IF event_id \notin DOMAIN st THEN Raise(st, nid, "HttpError")
  ELSE LET st2 == BackendDelete(st, event_id)
           applied == <<[op |-> "delete", id |-> event_id]>>
       IN IF o = "late"
          THEN [exc |-> ErrorText(o), ret |-> None, store |-> st2,
                nextId |-> nid, log |-> applied]
          ELSE [exc |-> "none",
                ret |-> [event_id |-> event_id, status |-> "deleted"],
                store |-> st2, nextId |-> nid, log |-> applied]

_delete_lowest_event(st, nid, event_to_delete, o) ==
  IF o = "lost" \/ DOMAIN st = {} THEN Raise(st, nid, ErrorText("lost"))
  ELSE LET lowest == CHOOSE i \in DOMAIN st : \A j \in DOMAIN st : i <= j
       IN [exc |-> "none",
           ret |-> [deleted_event |-> event_to_delete, status |-> "deleted"],
           store |-> BackendDelete(st, lowest), nextId |-> nid,
           log |-> <<[op |-> "delete", id |-> lowest]>>]

\* _delete_event of delete_event_by_name_and_date
_delete_named_event(st, nid, event_to_delete, o) ==
  IF o = "lost" THEN Raise(st, nid, ErrorText(o))
  ELSE IF event_to_delete.id \notin DOMAIN st
       THEN Raise(st, nid, "HttpError")
  ELSE LET st2 == BackendDelete(st, event_to_delete.id)
           applied == <<[op |-> "delete", id |-> event_to_delete.id]>>
       IN IF o = "late"
          THEN [exc |-> ErrorText(o), ret |-> None, store |-> st2,
                nextId |-> nid, log |-> applied]
          ELSE [exc |-> "none",
                ret |-> [deleted_event |-> event_to_delete, status |-> "deleted"],
                store |-> st2, nextId |-> nid, log |-> applied]

\* _update_event of update_event_by_name_and_date
_update_named_event(st, nid, event_to_update, start_iso, end_iso, summary, description, attendees, o) ==
  IF o = "lost" THEN Raise(st, nid, ErrorText(o))
  ELSE IF event_to_update.id \notin DOMAIN st
       THEN Raise(st, nid, "HttpError")
  ELSE LET event == MergeFields(Resource(st, event_to_update.id),
                                start_iso, end_iso, summary, description, attendees)
           st2 == BackendUpdate(st, event_to_update.id, event)
           applied == <<[op |-> "update", id |-> event_to_update.id]>>
       IN IF o = "late"
          THEN [exc |-> ErrorText(o), ret |-> None, store |-> st2,
                nextId |-> nid, log |-> applied]
          ELSE [exc |-> "none", ret |-> Resource(st2, event_to_update.id),
                store |-> st2, nextId |-> nid, log |-> applied]

\* func(): one attempt at the request, with the outcome o of its backend call
Func(req, st, nid, o) ==
  CASE req.fn = "_find_events" ->
         _find_events(st, nid, req.event_name, req.date, o)
    [] req.fn = "_check_availability" ->
         _check_availability(st, nid, req.start_iso, req.end_iso, o)
    [] req.fn = "_create_event" ->
         _create_event(st, nid, req.summary, req.start_iso, req.end_iso, o)
    [] req.fn = "_update_event" ->
         _update_event(st, nid, req.event_id, req.start_iso, req.end_iso, req.summary,
                       req.description, req.attendees, o)
    [] req.fn = "_delete_event" ->
         _delete_event(st, nid, req.event_id, o)
    [] req.fn = "_delete_named_event" ->
         _delete_named_event(st, nid, req.event, o)
    [] req.fn = "_update_named_event" ->
         _update_named_event(st, nid, req.event, req.start_iso, req.end_iso, req.summary,
                             req.description, req.attendees, o)

IsTransientWebsocketOnly(error_msg) == error_msg = "websocket"

EveryErrorTransient(error_msg) == TRUE

\* "extra_headers" in error_msg or "websocket" in error_msg
IsTransient(error_msg) == error_msg \in {"extra_headers", "websocket"}

RECURSIVE RetryLoop(_, _, _, _, _, _, _)
\* One pass of the loop body once func() has answered with r: return its
\* value, or handle the exception it raised.
Attempt(req, script, attempt, applied, sleeps, r) ==
  IF r.exc = "none" \/ ~IsTransient(r.exc)
  THEN [r EXCEPT !.log = applied \o @] @@
       [attempts |-> attempt + 1, sleeps |-> sleeps]
  ELSE IF attempt < max_retries - 1
       THEN RetryLoop(req, r.store, r.nextId, script, attempt + 1,
                      applied \o r.log, Append(sleeps, delay * (attempt + 1)))
       ELSE [r EXCEPT !.exc = "none", !.ret = connection_error,
                      !.log = applied \o @] @@
            [attempts |-> attempt + 1, sleeps |-> sleeps]

\* for attempt in range(max_retries): the loop of safe_api_call from the
\* given attempt on; sleeps collects the arguments of time.sleep.
RetryLoop(req, st, nid, script, attempt, applied, sleeps) ==
  IF attempt >= max_retries
  THEN [exc |-> "none", ret |-> None, store |-> st, nextId |-> nid,
        log |-> applied, attempts |-> attempt, sleeps |-> sleeps]
  ELSE Attempt(req, script, attempt, applied, sleeps,
               Func(req, st, nid, script[attempt + 1]))

safe_api_call(req, st, nid, script) ==
  RetryLoop(req, st, nid, script, 0, <<>>, <<>>)

\* ------------------------------------------------------------------ tools
\* A tool call yields [exc, ret, store, nextId, log, found]: exc is "none"
\* and ret the value returned, or exc is the exception the tool raises.
Out(r, f) ==
  [exc |-> r.exc, ret |-> r.ret, store |-> r.store, nextId |-> r.nextId,
   log |-> r.log, found |-> f]

Quiet(st, nid, value, f) ==
  [exc |-> "none", ret |-> value, store |-> st, nextId |-> nid,
   log |-> <<>>, found |-> f]

Throw(st, nid, text, f) ==
  [exc |-> text, ret |-> None, store |-> st, nextId |-> nid,
   log |-> <<>>, found |-> f]

check_time_slot_availability(st, nid, start_iso, end_iso, script) ==
  safe_api_call([fn |-> "_check_availability", start_iso |-> start_iso,
                 end_iso |-> end_iso], st, nid, script)

find_events_by_name_and_date(st, nid, event_name, date, script) ==
  safe_api_call([fn |-> "_find_events", event_name |-> event_name,
                 date |-> date], st, nid, script)

\* conflict_check.get("available", True)
GetAvailable(conflict_check) ==
  IF "available" \in DOMAIN conflict_check THEN conflict_check.available ELSE TRUE

create_calendar_event_holding(st, nid, start_iso, end_iso, summary, confirmed, skip_conflict_check, s1, s2) ==
  [exc |-> "none",
   ret |-> [id |-> nid, summary |-> summary, start |-> start_iso, end |-> end_iso],
   store |-> BackendInsert(st, nid, [summary |-> summary, start |-> start_iso,
                                     end |-> end_iso]),
   nextId |-> nid + 1, log |-> <<[op |-> "insert", id |-> nid]>>, found |-> Nothing]

create_calendar_event(st, nid, start_iso, end_iso, summary, confirmed, skip_conflict_check, s1, s2) ==
  IF ~confirmed
  THEN LET pending == [event_details |-> [summary |-> summary, start |-> start_iso,
                                          end |-> end_iso],
                       status |-> "pending_confirmation"]
       IN IF ~skip_conflict_check
          THEN LET c == check_time_slot_availability(st, nid, start_iso, end_iso, s1)
               IN IF c.exc # "none" THEN Throw(st, nid, c.exc, Nothing)
                  ELSE IF ~GetAvailable(c.ret)
                       THEN Quiet(st, nid,
                              [conflicts |-> c.ret.conflicting_events,
                               status |-> "conflict_detected"], c.ret)
                       ELSE Quiet(st, nid, pending, c.ret)
          ELSE Quiet(st, nid, pending, Nothing)
  ELSE Out(safe_api_call([fn |-> "_create_event", summary |-> summary,
                          start_iso |-> start_iso, end_iso |-> end_iso],
                         st, nid, s2), Nothing)

update_calendar_event(st, nid, event_id, start_iso, end_iso, summary, description, attendees, confirmed, script) ==
  IF ~confirmed
  THEN Quiet(st, nid,
         [event_id |-> event_id,
          proposed_changes |-> [start_iso |-> start_iso, end_iso |-> end_iso,
                                summary |-> summary, description |-> description,
                                attendees |-> attendees],
          status |-> "pending_confirmation"], Nothing)
  ELSE Out(safe_api_call([fn |-> "_update_event", event_id |-> event_id,
                          start_iso |-> start_iso, end_iso |-> end_iso,
                          summary |-> summary, description |-> description,
                          attendees |-> attendees], st, nid, script), Nothing)

delete_calendar_event_ungated(st, nid, event_id, confirmed, script) ==
  Out(safe_api_call([fn |-> "_delete_event", event_id |-> event_id],
                    st, nid, script), Nothing)

delete_calendar_event(st, nid, event_id, confirmed, script) ==
  IF ~confirmed
  THEN Quiet(st, nid, [event_id |-> event_id, status |-> "pending_confirmation"], Nothing)
  ELSE Out(safe_api_call([fn |-> "_delete_event", event_id |-> event_id],
                         st, nid, script), Nothing)

\* matching_events = matching_events_result["events"] when the locator's
\* answer is a dict with "events", else matching_events_result or [] (the
\* answer itself: the connection_error dict is not empty).
MatchingEvents(matching_events_result) ==
  IF "events" \in DOMAIN matching_events_result
  THEN matching_events_result.events
  ELSE matching_events_result

\* whether matching_events is a list (of events) and not a dict
IsEventList(matching_events_result) == "events" \in DOMAIN matching_events_result

\* if not matching_events
NoMatch(matching_events) == PyLen(matching_events) = 0

\* if len(matching_events) == 1
SingleMatch(matching_events) == PyLen(matching_events) = 1

NeverAmbiguous(matching_events) == FALSE

\* if len(matching_events) > 1
Ambiguous(matching_events) == PyLen(matching_events) > 1

delete_event_by_name_and_date(st, nid, event_name, date, confirmed, s1, s2) ==
  LET f == find_events_by_name_and_date(st, nid, event_name, date, s1)
      matching_events == MatchingEvents(f.ret)
      isList == IsEventList(f.ret)
  IN IF f.exc # "none" THEN Throw(st, nid, f.exc, Nothing)
     ELSE IF ~confirmed
     THEN IF NoMatch(matching_events)
          THEN Quiet(st, nid, [status |-> "no_events_found"], f.ret)
          ELSE IF SingleMatch(matching_events)
          THEN IF isList
               THEN Quiet(st, nid, [event_details |-> matching_events[1],
                                    status |-> "pending_confirmation"], f.ret)
               ELSE Throw(st, nid, "KeyError", f.ret)
          ELSE IF isList
               THEN Quiet(st, nid, [matching_events |-> matching_events,
                                    status |-> "multiple_events_found"], f.ret)
               \* event['summary'] with event a key of the dict, a str
               ELSE Throw(st, nid, "TypeError", f.ret)
     ELSE IF NoMatch(matching_events)
          THEN Quiet(st, nid, [status |-> "no_events_found"], f.ret)
          ELSE IF Ambiguous(matching_events)
          THEN Quiet(st, nid, [matching_events |-> matching_events,
                               status |-> "multiple_events_found"], f.ret)
          ELSE IF isList
          THEN Out(safe_api_call([fn |-> "_delete_named_event",
                                  event |-> matching_events[1]], st, nid, s2), f.ret)
          ELSE Throw(st, nid, "KeyError", f.ret)

update_event_by_name_and_date(st, nid, event_name, date, start_iso, end_iso, summary, description, attendees, confirmed, s1, s2) ==
  LET f == find_events_by_name_and_date(st, nid, event_name, date, s1)
      matching_events == MatchingEvents(f.ret)
      isList == IsEventList(f.ret)
  IN IF f.exc # "none" THEN Throw(st, nid, f.exc, Nothing)
     ELSE IF ~confirmed
     THEN IF NoMatch(matching_events)
          THEN Quiet(st, nid, [status |-> "no_events_found"], f.ret)
          ELSE IF SingleMatch(matching_events)
          THEN IF isList
               THEN Quiet(st, nid,
                      [event_details |-> matching_events[1],
                       proposed_changes |-> [start_iso |-> start_iso,
                                             end_iso |-> end_iso,
                                             summary |-> summary,
                                             description |-> description,
                                             attendees |-> attendees],
                       status |-> "pending_confirmation"], f.ret)
               ELSE Throw(st, nid, "KeyError", f.ret)
          ELSE IF isList
               THEN Quiet(st, nid, [matching_events |-> matching_events,
                                    status |-> "multiple_events_found"], f.ret)
               ELSE Throw(st, nid, "TypeError", f.ret)
     ELSE IF NoMatch(matching_events)
          THEN Quiet(st, nid, [status |-> "no_events_found"], f.ret)
          ELSE IF Ambiguous(matching_events)
          THEN Quiet(st, nid, [matching_events |-> matching_events,
                               status |-> "multiple_events_found"], f.ret)
          ELSE IF isList
          THEN Out(safe_api_call([fn |-> "_update_named_event",
                                  event |-> matching_events[1],
                                  start_iso |-> start_iso, end_iso |-> end_iso,
                                  summary |-> summary, description |-> description,
                                  attendees |-> attendees], st, nid, s2), f.ret)
          ELSE Throw(st, nid, "KeyError", f.ret)

\* ------------------------------------------------------------- slot sweep
\* find_available_slots from "slots = []" on: busy holds the (start, end)
\* pairs built from the listed events, a tick is one minute.
RECURSIVE InsertByStart(_, _)
InsertByStart(sorted, b) ==
  IF sorted = <<>> THEN <<b>>
  ELSE IF b[1] < Head(sorted)[1] THEN <<b>> \o sorted
  ELSE <<Head(sorted)>> \o InsertByStart(Tail(sorted), b)

RECURSIVE SortedByStart(_)
\* sorted(busy, key=lambda x: x[0]): stable, ascending start
SortedByStart(bs) ==
  IF bs = <<>> THEN <<>>
  ELSE InsertByStart(SortedByStart(SubSeq(bs, 1, Len(bs) - 1)), bs[Len(bs)])

Max(a, b) == IF a >= b THEN a ELSE b

\* if b_start > search_start and (b_start - search_start) >= min_slot
GapFitsAnyLength(b_start, search_start, min_slot) ==
  b_start > search_start

GapFits(b_start, search_start, min_slot) ==
  b_start > search_start /\ (b_start - search_start) >= min_slot

\* search_start = max(search_start, b_end)
AdvanceToEnd(search_start, b_end) == b_end

KeepCursor(search_start, b_end) == search_start

Advance(search_start, b_end) == Max(search_start, b_end)

Slot(start, end, duration_minutes) ==
  [start |-> start, end |-> end, duration_minutes |-> duration_minutes]

RECURSIVE SweepLoopNoTail(_, _, _, _, _, _)
SweepLoopNoTail(bs, i, search_start, search_end, duration_minutes, acc) ==
  IF i > Len(bs) THEN acc
  ELSE SweepLoopNoTail(bs, i + 1, Max(search_start, bs[i][2]), search_end,
                       duration_minutes,
                       IF bs[i][1] > search_start
                          /\ (bs[i][1] - search_start) >= duration_minutes
                       THEN Append(acc, [start |-> search_start, end |-> bs[i][1],
                                         duration_minutes |-> duration_minutes])
                       ELSE acc)

RECURSIVE SweepLoop(_, _, _, _, _, _)
\* for b_start, b_end in busy: ...  then the trailing slot
SweepLoop(bs, i, search_start, search_end, duration_minutes, acc) ==
  IF i > Len(bs)
  THEN IF GapFits(search_end, search_start, duration_minutes)
       THEN Append(acc, Slot(search_start, search_end, duration_minutes))
       ELSE acc
  ELSE LET b_start == bs[i][1]
           b_end == bs[i][2]
       IN SweepLoop(bs, i + 1, Advance(search_start, b_end), search_end,
                    duration_minutes,
                    IF GapFits(b_start, search_start, duration_minutes)
                    THEN Append(acc, Slot(search_start, b_start, duration_minutes))
                    ELSE acc)

FindSlots(window_start, window_end, bs, duration_minutes) ==
  SweepLoop(SortedByStart(bs), 1, window_start, window_end, duration_minutes, <<>>)

\* -------------------------------------------------------- the search window
\* A datetime is a record: date counts days from a Monday, the rest is the
\* wall clock.  All datetimes are taken in one zone.  An ISO string is the
\* tuple of its numbers; day and time_pref are strings.
\* datetime.datetime.fromisoformat
fromisoformat(iso) ==
  [date |-> iso[1], hour |-> iso[2], minute |-> iso[3],
   second |-> iso[4], microsecond |-> iso[5]]

\* dt.replace(hour=h): every other field stays as it is
ReplaceHour(dt, h) == [dt EXCEPT !.hour = h]
\* dt.replace(hour=h, minute=0, second=0, microsecond=0)
ReplaceClock(dt, h) ==
  [dt EXCEPT !.hour = h, !.minute = 0, !.second = 0, !.microsecond = 0]
\* dt + datetime.timedelta(days=n)
PlusDays(dt, n) == [dt EXCEPT !.date = @ + n]
\* dt.weekday(): Monday is 0
weekday(dt) == dt.date % 7

weekdays ==
  << <<"m", "o", "n", "d", "a", "y">>,
     <<"t", "u", "e", "s", "d", "a", "y">>,
     <<"w", "e", "d", "n", "e", "s", "d", "a", "y">>,
     <<"t", "h", "u", "r", "s", "d", "a", "y">>,
     <<"f", "r", "i", "d", "a", "y">>,
     <<"s", "a", "t", "u", "r", "d", "a", "y">>,
     <<"s", "u", "n", "d", "a", "y">> >>
\* weekdays.index(day_lower), counted from 0
WeekdayIndex(day_lower) ==
  (CHOOSE i \in 1..Len(weekdays) : weekdays[i] = day_lower) - 1
\* day_lower in weekdays
IsWeekday(day_lower) == \E i \in 1..Len(weekdays) : weekdays[i] = day_lower

\* The bounds after the ISO arguments and the defaults.
BoundsOrDefault(now, window_start_iso, window_end_iso) ==
  << IF window_start_iso # None
     THEN fromisoformat(window_start_iso[1])
     ELSE ReplaceClock(now, 8),
     IF window_end_iso # None
     THEN fromisoformat(window_end_iso[1])
     ELSE PlusDays(ReplaceClock(now, 20), 7) >>

\* The day the window is moved to: the next day of that name, today included.
TargetDate(now, day_lower) ==
  PlusDays(now, (WeekdayIndex(day_lower) - weekday(now)) % 7)

\* The window a bare weekday name fixes, whatever the bounds were.
DayOnly(target_date) ==
  <<ReplaceClock(target_date, 8), ReplaceClock(target_date, 20)>>

\* "Handle day parameter if provided"
HandleDay(now, day, w) ==
  IF day # None /\ IsWeekday(Lower(day[1]))
  THEN DayOnly(TargetDate(now, Lower(day[1])))
  ELSE w

\* window_start = window_start.replace(hour=a);
\* window_end = window_start.replace(hour=b)
Period(window_start, a, b) ==
  <<ReplaceHour(window_start, a), ReplaceHour(ReplaceHour(window_start, a), b)>>

\* "Handle time preference if provided"
HandleTimePref(time_pref, w) ==
  IF time_pref = None THEN w
  ELSE IF Contains(<<"m", "o", "r", "n", "i", "n", "g">>,
                   Lower(time_pref[1])) THEN Period(w[1], 8, 12)
  ELSE IF Contains(<<"a", "f", "t", "e", "r", "n", "o", "o", "n">>,
                   Lower(time_pref[1])) THEN Period(w[1], 12, 17)
  ELSE IF Contains(<<"e", "v", "e", "n", "i", "n", "g">>,
                   Lower(time_pref[1])) THEN Period(w[1], 17, 20)
  ELSE w

\* The window find_available_slots searches.
SearchWindow(now, day, time_pref, window_start_iso, window_end_iso) ==
  HandleTimePref(time_pref,
                 HandleDay(now, day,
                           BoundsOrDefault(now, window_start_iso, window_end_iso)))


\* ------------------------------------------------------------ date phrases
\* parse_date_string, as list_calendar_events and find_events_by_name_and_date
\* define it (the two texts are the same) and as
\* parse_time_from_natural_language defines it.  A resolved day is a
\* datetime at 00:00:00.
months ==
  << <<"j", "a", "n", "u", "a", "r", "y">>,
     <<"f", "e", "b", "r", "u", "a", "r", "y">>,
     <<"m", "a", "r", "c", "h">>,
     <<"a", "p", "r", "i", "l">>,
     <<"m", "a", "y">>,
     <<"j", "u", "n", "e">>,
     <<"j", "u", "l", "y">>,
     <<"a", "u", "g", "u", "s", "t">>,
     <<"s", "e", "p", "t", "e", "m", "b", "e", "r">>,
     <<"o", "c", "t", "o", "b", "e", "r">>,
     <<"n", "o", "v", "e", "m", "b", "e", "r">>,
     <<"d", "e", "c", "e", "m", "b", "e", "r">> >>
\* months.index(month_name), counted from 0
MonthIndex(month_name) ==
  (CHOOSE i \in 1..Len(months) : months[i] = month_name) - 1

\* now.year: a year that begins on a Monday and has no 29 February
current_year == 2018
\* the days of the months of that year
days_in_month == <<31, 28, 31, 30, 31, 30, 31, 31, 30, 31, 30, 31>>
RECURSIVE DaysBeforeMonth(_)
DaysBeforeMonth(month) ==
  IF month = 1 THEN 0 ELSE DaysBeforeMonth(month - 1) + days_in_month[month - 1]

\* what a step of the parse yields: a value, or the exception it raises
Value(v) == [exc |-> "none", ret |-> v]
ValueError(text) == [exc |-> "ValueError", text |-> text, ret |-> None]

\* datetime.datetime(year, month, day)
datetime(year, month, day) ==
  IF month \in 1..12 /\ day \in 1..days_in_month[month]
  THEN Value([date |-> (year - current_year) * 365 + DaysBeforeMonth(month) + day - 1,
              hour |-> 0, minute |-> 0, second |-> 0, microsecond |-> 0])
  ELSE ValueError("day is out of range for month")

\* datetime.datetime.fromisoformat of a string of characters: the form
\* YYYY-MM-DDTHH:MM:SS is read, anything else is refused.
IsoShape(s) ==
  /\ Len(s) = 19
  /\ \A i \in {1, 2, 3, 4, 6, 7, 9, 10, 12, 13, 15, 16, 18, 19} : IsDigit(s[i])
  /\ s[5] = "-" /\ s[8] = "-" /\ s[11] = "T" /\ s[14] = ":" /\ s[17] = ":"
IsoYear(s) == 100 * IntOf(SubSeq(s, 1, 2)) + IntOf(SubSeq(s, 3, 4))
ParseIso(s) ==
  IF /\ IsoShape(s)
     /\ datetime(IsoYear(s), IntOf(SubSeq(s, 6, 7)), IntOf(SubSeq(s, 9, 10))).exc = "none"
     /\ IntOf(SubSeq(s, 12, 13)) < 24
     /\ IntOf(SubSeq(s, 15, 16)) < 60
     /\ IntOf(SubSeq(s, 18, 19)) < 60
  THEN Value([datetime(IsoYear(s), IntOf(SubSeq(s, 6, 7)), IntOf(SubSeq(s, 9, 10))).ret
                EXCEPT !.hour = IntOf(SubSeq(s, 12, 13)),
                       !.minute = IntOf(SubSeq(s, 15, 16)),
                       !.second = IntOf(SubSeq(s, 18, 19))])
  ELSE ValueError("Invalid isoformat string")

\* days to the coming day of that name, a week when it is today
SkipToday(day_idx, today_idx) ==
  IF (day_idx - today_idx) % 7 = 0 THEN 7 ELSE (day_idx - today_idx) % 7
\* days to the nearest day of that name, today included
SameWeek(day_idx, today_idx) == (day_idx - today_idx) % 7

\* the bare weekday rule: today when it is that day, else the next one
BareDaysAhead(day_idx, today_idx) ==
  IF day_idx = today_idx THEN 0
  ELSE IF (day_idx - today_idx) % 7 = 0 THEN 7
  ELSE (day_idx - today_idx) % 7
\* "next <weekday>"
NextDaysAhead(day_idx, today_idx) == ((day_idx - today_idx) % 7) + 7
\* "this <weekday>"
ThisDaysAhead(day_idx, today_idx) ==
  IF (day_idx - today_idx) % 7 = 0 THEN 7 ELSE (day_idx - today_idx) % 7

\* re.search(month_pattern, s): month m is matched at position i when its
\* name stands there, then one or more blanks, then a digit at position j
MonthNameAt(s, i, m) ==
  /\ i + Len(months[m]) - 1 <= Len(s)
  /\ s[i] = months[m][1]
  /\ SubSeq(s, i, i + Len(months[m]) - 1) = months[m]
DigitAfterBlanks(s, from, j) ==
  /\ from < j
  /\ \A k \in from..(j - 1) : s[k] = " "
  /\ IsDigit(s[j])
\* every match of the pattern in s, as <<i, m, j>>
MonthMatchSet(s) ==
  UNION { { <<h[1], h[2], j>> :
              j \in { j \in (h[1] + Len(months[h[2]]) + 1)..Len(s) :
                        DigitAfterBlanks(s, h[1] + Len(months[h[2]]), j) } } :
          h \in { h \in (1..Len(s)) \X (1..Len(months)) : MonthNameAt(s, h[1], h[2]) } }
\* the match re.search returns: the leftmost one
FirstMatch(matches) == CHOOSE t \in matches : \A u \in matches : t[1] <= u[1]
\* int(match.group(2)): the digit at j and the one after it, if it is one
MatchDay(s, j) ==
  IF j < Len(s) /\ IsDigit(s[j + 1])
  THEN IntOf(SubSeq(s, j, j + 1))
  ELSE IntOf(SubSeq(s, j, j))
\* a day, when there is one
OptDay(r) == IF r.exc = "none" THEN Value(<<r.ret>>) ELSE r
\* "Handle month names with day", then "If we can't parse it, return None"
MonthRule(s, matches) ==
  IF matches = {} THEN Value(None)
  ELSE OptDay(datetime(current_year,
                       MonthIndex(months[FirstMatch(matches)[2]]) + 1,
                       MatchDay(s, FirstMatch(matches)[3])))

\* dt.replace(hour=0, minute=0, second=0, microsecond=0)
Midnight(dt) == ReplaceClock(dt, 0)

\* The day rules after the ISO rule, in the order of the code, on the
\* lowered string: the day the phrase names, None when no rule matches.
ResolveDay(date_lower, now) ==
  IF date_lower = <<"t", "o", "d", "a", "y">> THEN Value(<<Midnight(now)>>)
  ELSE IF date_lower = <<"t", "o", "m", "o", "r", "r", "o", "w">> THEN Value(<<Midnight(PlusDays(now, 1))>>)
  ELSE IF date_lower = <<"y", "e", "s", "t", "e", "r", "d", "a", "y">> THEN Value(<<Midnight(PlusDays(now, 0 - 1))>>)
  ELSE IF IsWeekday(date_lower)
  THEN Value(<<Midnight(PlusDays(now, BareDaysAhead(WeekdayIndex(date_lower),
                                                    weekday(now))))>>)
  ELSE IF /\ StartsWith(date_lower, <<"n", "e", "x", "t", " ">>)
          /\ IsWeekday(Remove(date_lower, <<"n", "e", "x", "t", " ">>))
  THEN Value(<<Midnight(PlusDays(now,
                 NextDaysAhead(WeekdayIndex(Remove(date_lower, <<"n", "e", "x", "t", " ">>)),
                               weekday(now))))>>)
  ELSE IF /\ StartsWith(date_lower, <<"t", "h", "i", "s", " ">>)
          /\ IsWeekday(Remove(date_lower, <<"t", "h", "i", "s", " ">>))
  THEN Value(<<Midnight(PlusDays(now,
                 ThisDaysAhead(WeekdayIndex(Remove(date_lower, <<"t", "h", "i", "s", " ">>)),
                               weekday(now))))>>)
  ELSE MonthRule(date_lower, MonthMatchSet(date_lower))

\* The same without the "this <weekday>" rule, as
\* parse_time_from_natural_language has it.
ResolveDayForTime(date_lower, now) ==
  IF date_lower = <<"t", "o", "d", "a", "y">> THEN Value(<<Midnight(now)>>)
  ELSE IF date_lower = <<"t", "o", "m", "o", "r", "r", "o", "w">> THEN Value(<<Midnight(PlusDays(now, 1))>>)
  ELSE IF date_lower = <<"y", "e", "s", "t", "e", "r", "d", "a", "y">> THEN Value(<<Midnight(PlusDays(now, 0 - 1))>>)
  ELSE IF IsWeekday(date_lower)
  THEN Value(<<Midnight(PlusDays(now, BareDaysAhead(WeekdayIndex(date_lower),
                                                    weekday(now))))>>)
  ELSE IF /\ StartsWith(date_lower, <<"n", "e", "x", "t", " ">>)
          /\ IsWeekday(Remove(date_lower, <<"n", "e", "x", "t", " ">>))
  THEN Value(<<Midnight(PlusDays(now,
                 NextDaysAhead(WeekdayIndex(Remove(date_lower, <<"n", "e", "x", "t", " ">>)),
                               weekday(now))))>>)
  ELSE MonthRule(date_lower, MonthMatchSet(date_lower))

\* (start, end) of a resolved day: the day and the day after
DayRange(day) ==
  CASE day.exc # "none" -> day
    [] day.exc = "none" /\ day.ret = None -> Value(<<None, None>>)
    [] OTHER -> Value(<<day.ret, <<PlusDays(day.ret[1], 1)>> >>)

\* parse_date_string of list_calendar_events and find_events_by_name_and_date:
\* (start, end) as datetimes, (None, None), or the exception
parse_date_string(date_str, now) ==
  IF date_str = <<>> THEN Value(<<None, None>>)
  ELSE IF Contains(<<"T">>, date_str) /\ Len(date_str) >= 10
  THEN DayRange(OptDay(ParseIso(date_str)))
  ELSE DayRange(ResolveDay(Lower(date_str), now))

\* dt.replace(hour=23, minute=59, second=59, microsecond=999999)
EndOfDay(dt) ==
  [dt EXCEPT !.hour = 23, !.minute = 59, !.second = 59, !.microsecond = 999999]

\* "if not start_date: ..." / "if not end_date: ...": element k of the
\* parsed pair, or the default
BoundOr(parsed, k, default) ==
  IF parsed.exc # "none" THEN parsed
  ELSE IF parsed.ret[k] = None THEN Value(default)
  ELSE Value(parsed.ret[k][1])
\* the two bounds, or the exception raised on the way to them
Range(start, end) ==
  IF start.exc # "none" THEN start
  ELSE IF end.exc # "none" THEN end
  ELSE Value(<<start.ret, end.ret>>)
\* parse_date_string(date) if date else (None, None)
ParseIfGiven(date, now) ==
  IF date = None \/ date[1] = <<>> THEN Value(<<None, None>>)
  ELSE parse_date_string(date[1], now)

\* the range find_events_by_name_and_date lists: the parsed day, or today
\* 00:00 to the end of the day DefaultDays later
FindBounds(parsed, now) ==
  Range(BoundOr(parsed, 1, Midnight(now)),
        BoundOr(parsed, 2, EndOfDay(PlusDays(now, DefaultDays))))
FindRange(date, now) == FindBounds(ParseIfGiven(date, now), now)

\* the range list_calendar_events lists: the start of the day of start_date
\* and the end of the day of end_date, or today 00:00 and the end of the day
\* ListDays later
ListDays == 7
ListRange(start_date, end_date, now) ==
  Range(BoundOr(ParseIfGiven(start_date, now), 1, Midnight(now)),
        BoundOr(ParseIfGiven(end_date, now), 2, EndOfDay(PlusDays(now, ListDays))))

\* ------------------------------------------------------------ time strings
\* no string is read as a 24-hour time
Never24Hour(s) == FALSE

\* re.match(r'^\d{1,2}:\d{2}$', s)
Is24Hour(s) ==
  \/ /\ Len(s) = 4
     /\ IsDigit(s[1]) /\ s[2] = ":" /\ IsDigit(s[3]) /\ IsDigit(s[4])
  \/ /\ Len(s) = 5
     /\ IsDigit(s[1]) /\ IsDigit(s[2]) /\ s[3] = ":" /\ IsDigit(s[4]) /\ IsDigit(s[5])
\* hour, minute = map(int, s.split(':'))
Hour24(s) == IntOf(SubSeq(s, 1, Len(s) - 3))
Minute24(s) == IntOf(SubSeq(s, Len(s) - 1, Len(s)))

\* the part of s before (am|pm) and the blanks in front of it
BeforePeriod(s) == RStrip(SubSeq(s, 1, Len(s) - 2))
\* \d{1,2}
IsHour(s) == Len(s) \in 1..2 /\ \A i \in 1..Len(s) : IsDigit(s[i])
\* re.match(r'^(\d{1,2})(?::(\d{2}))?\s*(am|pm)$', s)
Is12Hour(s) ==
  /\ Len(s) >= 3
  /\ SubSeq(s, Len(s) - 1, Len(s)) \in {<<"a", "m">>, <<"p", "m">>}
  /\ \/ IsHour(BeforePeriod(s))
     \/ Is24Hour(BeforePeriod(s))
\* match.group(1), match.group(2) (0 when absent), match.group(3)
Hour12(s) ==
  IF IsHour(BeforePeriod(s)) THEN IntOf(BeforePeriod(s)) ELSE Hour24(BeforePeriod(s))
Minute12(s) ==
  IF IsHour(BeforePeriod(s)) THEN 0 ELSE Minute24(BeforePeriod(s))
Period12(s) == SubSeq(s, Len(s) - 1, Len(s))

\* twelve hours more for every pm hour, none less for 12 am
AddTwelve(hour, period) == IF period = <<"p", "m">> THEN hour + 12 ELSE hour

\* "Convert to 24-hour format"
To24(hour, period) ==
  IF period = <<"p", "m">> /\ hour # 12 THEN hour + 12
  ELSE IF period = <<"a", "m">> /\ hour = 12 THEN 0
  ELSE hour

\* the hour and minute of the stripped, lowered time string
ParseClock(s) ==
  IF Is24Hour(s)
  THEN IF Hour24(s) < 0 \/ Hour24(s) > 23 \/ Minute24(s) < 0 \/ Minute24(s) > 59
       THEN ValueError("Invalid time format")
       ELSE Value([hour |-> Hour24(s), minute |-> Minute24(s)])
  ELSE IF ~Is12Hour(s) THEN ValueError("Invalid time format")
  ELSE IF Hour12(s) < 1 \/ Hour12(s) > 12 \/ Minute12(s) < 0 \/ Minute12(s) > 59
  THEN ValueError("Invalid time format")
  ELSE Value([hour |-> To24(Hour12(s), Period12(s)), minute |-> Minute12(s)])

\* "Get the target date"
DayOr(day, now) ==
  IF day.exc # "none" THEN day
  ELSE IF day.ret = None THEN Value(now)
  ELSE Value(day.ret[1])
TargetDay(date_str, now) ==
  IF date_str = None \/ date_str[1] = <<>> THEN Value(now)
  ELSE DayOr(ResolveDayForTime(Lower(date_str[1]), now), now)

\* target_date.replace(hour=hour, minute=minute, second=0, microsecond=0)
AtClock(target_date, clock) ==
  IF target_date.exc # "none" THEN target_date
  ELSE IF clock.exc # "none" THEN clock
  ELSE Value([target_date.ret EXCEPT !.hour = clock.ret.hour,
                                     !.minute = clock.ret.minute,
                                     !.second = 0, !.microsecond = 0])

parse_time_from_natural_language(time_str, date_str, now) ==
  AtClock(TargetDay(date_str, now), ParseClock(Lower(Strip(time_str))))

\* -------------------------------------------------- events as the backend
\* -------------------------------------------------- returns them, all-day
\* An event resource carries start and end as {"dateTime": iso} or, for an
\* all-day event, {"date": iso-date}.  A date-only ISO string is the tuple
\* <<date>>.  The end of an event is exclusive at the backend: an all-day
\* event on the dates d..e-1 has start.date = d and end.date = e.
\* seconds from 00:00:00 of date 0 (none of the datetimes compared here
\* carries microseconds)
Timestamp(dt) == (((dt.date * 24) + dt.hour) * 60 + dt.minute) * 60 + dt.second

\* event["start"].get("dateTime", event["start"].get("date"))
GetTime(t) == IF "dateTime" \in DOMAIN t THEN t.dateTime ELSE t.date

\* "T" in s
HasT(s) == Len(s) > 1

\* the instants the event occupies at the backend: [SpanStart, SpanEnd)
SpanStart(ev) ==
  IF HasT(GetTime(ev.start))
  THEN Timestamp(fromisoformat(GetTime(ev.start)))
  ELSE Timestamp(fromisoformat(GetTime(ev.start) \o <<0, 0, 0, 0>>))
SpanEnd(ev) ==
  IF HasT(GetTime(ev.end))
  THEN Timestamp(fromisoformat(GetTime(ev.end)))
  ELSE Timestamp(fromisoformat(GetTime(ev.end) \o <<0, 0, 0, 0>>))

RECURSIVE BySpanStart(_, _)
\* orderBy="startTime" on event resources (ties in id order)
BySpanStart(st, S) ==
  IF S = {} THEN <<>>
  ELSE LET i == CHOOSE x \in S : \A y \in S :
                  \/ SpanStart(st[x]) < SpanStart(st[y])
                  \/ SpanStart(st[x]) = SpanStart(st[y]) /\ x <= y
       IN <<Resource(st, i)>> \o BySpanStart(st, S \ {i})

\* events().list(timeMin, timeMax, singleEvents, orderBy="startTime") on
\* event resources
ListResources(st, tmin, tmax) ==
  BySpanStart(st, {i \in DOMAIN st :
                     SpanEnd(st[i]) > Timestamp(tmin) /\ SpanStart(st[i]) < Timestamp(tmax)})

\* the pair of datetimes a listed event is given: a date-only start is read
\* as start + "T00:00:00" and the end as end + "T23:59:59"
ParseEventTimes(start, end) ==
  IF ~HasT(start)
  THEN <<fromisoformat(start \o <<0, 0, 0, 0>>), fromisoformat(end \o <<23, 59, 59, 0>>)>>
  ELSE <<fromisoformat(start), fromisoformat(end)>>

\* busy.append((start_dt, end_dt)) for every listed event
BuildBusy(events) ==
  [k \in 1..Len(events) |->
     <<Timestamp(ParseEventTimes(GetTime(events[k].start), GetTime(events[k].end))[1]),
       Timestamp(ParseEventTimes(GetTime(events[k].start), GetTime(events[k].end))[2])>>]

\* the slots of the sweep over instants in seconds:
\* min_slot = timedelta(minutes=duration_minutes)
SlotsInSeconds(window_start, window_end, bs, duration_minutes) ==
  [k \in DOMAIN FindSlots(window_start, window_end, bs, 60 * duration_minutes) |->
     [FindSlots(window_start, window_end, bs, 60 * duration_minutes)[k]
        EXCEPT !.duration_minutes = duration_minutes]]

\* the ids of the events the conflict check reports
RECURSIVE ConflictingIds(_, _, _, _, _)
ConflictingIds(items, requested_start, requested_end, i, conflicting_events) ==
  IF i > Len(items) THEN conflicting_events
  ELSE ConflictingIds(items, requested_start, requested_end, i + 1,
         IF Overlaps(Timestamp(ParseEventTimes(GetTime(items[i].start),
                                               GetTime(items[i].end))[1]),
                     Timestamp(ParseEventTimes(GetTime(items[i].start),
                                               GetTime(items[i].end))[2]),
                     Timestamp(requested_start), Timestamp(requested_end))
         THEN Append(conflicting_events, items[i].id)
         ELSE conflicting_events)

\* ------------------------------------------------------------ state machine
NoCall == [tool |-> "none", confirmed |-> FALSE]
EmptyStore == [i \in {} |-> None]

ToolInit ==
  /\ store = EmptyStore
  /\ nextId = 1
  /\ call = NoCall
  /\ pre = EmptyStore
  /\ found = Nothing
  /\ log = <<>>
  /\ result = Nothing

SlotIdle ==
  /\ window = <<0, 0>>
  /\ busy = <<>>
  /\ duration = 0
  /\ slots = <<>>
  /\ phase = "idle"

NoRetry == [attempts |-> 0]
WrapperIdle == retry = NoRetry
NoFlows == <<>>
FlowIdle == flows = NoFlows

Init == ToolInit /\ SlotIdle /\ WrapperIdle /\ FlowIdle

\* The tool returned (or raised): the backend and the record of the call.
Finish(c, out) ==
  /\ call = NoCall
  /\ out.nextId <= MaxIds + 1
  /\ call' = c
  /\ pre' = store
  /\ store' = out.store
  /\ nextId' = out.nextId
  /\ found' = out.found
  /\ log' = out.log
  /\ result' = IF out.exc = "none" THEN out.ret ELSE [raised |-> out.exc]
  /\ UNCHANGED slotVars
  /\ UNCHANGED wrapVars
  /\ UNCHANGED flowVars

Intervals == { <<a, b>> \in Times \X Times : a < b }

\* The field sets an update is called with: none, a new title, new times.
NoPatch ==
  [start_iso |-> None, end_iso |-> None, summary |-> None,
   description |-> None, attendees |-> None]
Patches ==
  { NoPatch,
    [NoPatch EXCEPT !.summary = << <<"b">> >>],
    [NoPatch EXCEPT !.start_iso = <<0>>, !.end_iso = <<MaxTime>>] }

CreateEvent ==
  \E iv \in Intervals, summary \in Titles, confirmed \in BOOLEAN, skip \in BOOLEAN :
  \E s1 \in ReadScripts, s2 \in WriteScripts :
     /\ (confirmed \/ skip) => s1 = AllOk
     /\ ~confirmed => s2 = AllOk
     /\ Finish([tool |-> "create_calendar_event", confirmed |-> confirmed,
                skip_conflict_check |-> skip, start_iso |-> iv[1], end_iso |-> iv[2],
                summary |-> summary],
               create_calendar_event(store, nextId, iv[1], iv[2], summary,
                                     confirmed, skip, s1, s2))

UpdateEvent ==
  \E event_id \in Ids, confirmed \in BOOLEAN, p \in Patches, script \in WriteScripts :
     /\ ~confirmed => script = AllOk
     /\ Finish([tool |-> "update_calendar_event", confirmed |-> confirmed,
                event_id |-> event_id],
               update_calendar_event(store, nextId, event_id, p.start_iso, p.end_iso,
                                     p.summary, p.description, p.attendees,
                                     confirmed, script))

DeleteEvent ==
  \E event_id \in Ids, confirmed \in BOOLEAN, script \in WriteScripts :
     /\ ~confirmed => script = AllOk
     /\ Finish([tool |-> "delete_calendar_event", confirmed |-> confirmed,
                event_id |-> event_id],
               delete_calendar_event(store, nextId, event_id, confirmed, script))

CheckAvailability ==
  \E iv \in Intervals, script \in ReadScripts :
     Finish([tool |-> "check_time_slot_availability", confirmed |-> FALSE,
             start_iso |-> iv[1], end_iso |-> iv[2]],
            Out(check_time_slot_availability(store, nextId, iv[1], iv[2], script),
                Nothing))

FindEvents ==
  \E event_name \in Titles, date \in Opt(Days), script \in ReadScripts :
     LET f == find_events_by_name_and_date(store, nextId, event_name, date, script)
     IN Finish([tool |-> "find_events_by_name_and_date", confirmed |-> FALSE,
                event_name |-> event_name, date |-> date],
               Out(f, IF f.exc = "none" THEN f.ret ELSE Nothing))

DeleteByName ==
  \E event_name \in Titles, date \in Opt(Days), confirmed \in BOOLEAN :
  \E s1 \in ReadScripts, s2 \in WriteScripts :
     /\ ~confirmed => s2 = AllOk
     /\ Finish([tool |-> "delete_event_by_name_and_date", confirmed |-> confirmed,
                event_name |-> event_name, date |-> date],
               delete_event_by_name_and_date(store, nextId, event_name, date,
                                             confirmed, s1, s2))

UpdateByName ==
  \E event_name \in Titles, date \in Opt(Days), confirmed \in BOOLEAN :
  \E p \in Patches, s1 \in ReadScripts, s2 \in WriteScripts :
     /\ ~confirmed => s2 = AllOk
     /\ Finish([tool |-> "update_event_by_name_and_date", confirmed |-> confirmed,
                event_name |-> event_name, date |-> date],
               update_event_by_name_and_date(store, nextId, event_name, date,
                                             p.start_iso, p.end_iso, p.summary,
                                             p.description, p.attendees,
                                             confirmed, s1, s2))

\* The agent takes the result of the call; the tools keep nothing of it
\* (no component holds state across calls), only the backend store remains.
TakeResult ==
  /\ call # NoCall
  /\ call' = NoCall
  /\ pre' = EmptyStore
  /\ found' = Nothing
  /\ log' = <<>>
  /\ result' = Nothing
  /\ UNCHANGED <<store, nextId>>
  /\ UNCHANGED slotVars
  /\ UNCHANGED wrapVars
  /\ UNCHANGED flowVars

Next ==
  \/ CreateEvent
  \/ UpdateEvent
  \/ DeleteEvent
  \/ CheckAvailability
  \/ FindEvents
  \/ DeleteByName
  \/ UpdateByName
  \/ TakeResult

Spec == Init /\ [][Next]_vars

\* The slot sweep on every window, busy list and duration within the bounds.
SlotTimes == 0..MaxSlotTime
BusyIntervals == { <<a, b>> \in SlotTimes \X SlotTimes : a <= b }
BusyLists == UNION { [1..n -> BusyIntervals] : n \in 0..MaxBusy }

SlotInit ==
  /\ ToolInit
  /\ WrapperIdle
  /\ FlowIdle
  /\ window \in SlotTimes \X SlotTimes
  /\ busy \in BusyLists
  /\ duration \in 0..MaxSlotTime
  /\ slots = <<>>
  /\ phase = "input"

Sweep ==
  /\ phase = "input"
  /\ slots' = FindSlots(window[1], window[2], busy, duration)
  /\ phase' = "done"
  /\ UNCHANGED <<window, busy, duration>>
  /\ UNCHANGED toolVars
  /\ UNCHANGED wrapVars
  /\ UNCHANGED flowVars

SlotNext == Sweep

SlotSpec == SlotInit /\ [][SlotNext]_vars

\* The window derivation of find_available_slots on its own: every clock
\* reading, ISO bound, day text and time preference of the sets below.
SubHours == { <<0, 0, 0>>, <<30, 0, 0>>, <<0, 15, 0>>, <<45, 10, 7>> }
Clocks ==
  { [date |-> d, hour |-> h, minute |-> m[1], second |-> m[2],
     microsecond |-> m[3]] :
      d \in {0, 3}, h \in {9, 22}, m \in { <<0, 0, 0>>, <<45, 10, 7>> } }
IsoStarts ==
  { <<d, h, m[1], m[2], m[3]>> : d \in {0, 3}, h \in {9, 14}, m \in SubHours }
IsoEnds == { <<0, 11, 0, 0, 0>>, <<3, 18, 30, 0, 0>> }
DayTexts ==
  { <<"M", "o", "n", "d", "a", "y">>,
    <<"t", "h", "u", "r", "s", "d", "a", "y">>,
    <<"t", "o", "m", "o", "r", "r", "o", "w">>,
    <<"n", "e", "x", "t", " ", "F", "r", "i", "d", "a", "y">> }
TimePrefs ==
  { <<"M", "o", "r", "n", "i", "n", "g">>,
    <<"l", "a", "t", "e", " ", "a", "f", "t", "e", "r", "n", "o", "o", "n">>,
    <<"e", "v", "e", "n", "i", "n", "g">>,
    <<"9", " ", "A", "M">> }

WindowInit ==
  /\ store = EmptyStore
  /\ nextId = 1
  /\ pre = EmptyStore
  /\ found = Nothing
  /\ log = <<>>
  /\ result = Nothing
  /\ WrapperIdle
  /\ FlowIdle
  /\ \E now \in Clocks, day \in Opt(DayTexts), time_pref \in Opt(TimePrefs),
        window_start_iso \in Opt(IsoStarts), window_end_iso \in Opt(IsoEnds) :
       call = [tool |-> "find_available_slots", confirmed |-> FALSE,
               now |-> now, day |-> day, time_pref |-> time_pref,
               window_start_iso |-> window_start_iso,
               window_end_iso |-> window_end_iso]
  /\ window = <<0, 0>>
  /\ busy = <<>>
  /\ duration = 0
  /\ slots = <<>>
  /\ phase = "input"

DeriveWindow ==
  /\ phase = "input"
  /\ window' = SearchWindow(call.now, call.day, call.time_pref,
                            call.window_start_iso, call.window_end_iso)
  /\ phase' = "derived"
  /\ UNCHANGED <<busy, duration, slots>>
  /\ UNCHANGED toolVars
  /\ UNCHANGED wrapVars
  /\ UNCHANGED flowVars

WindowNext == DeriveWindow

WindowSpec == WindowInit /\ [][WindowNext]_vars

\* The slot search and the conflict check on a backend that holds all-day
\* and timed events, from the window on.
AllDayEvent(d, n) ==
  [summary |-> <<"a">>, start |-> [date |-> <<d>>], end |-> [date |-> <<d + n>>]]
TimedEvent(d, h1, h2) ==
  [summary |-> <<"b">>,
   start |-> [dateTime |-> <<d, h1, 0, 0, 0>>],
   end |-> [dateTime |-> <<d, h2, 0, 0, 0>>]]
DatedEvents ==
  { AllDayEvent(d, n) : d \in 0..2, n \in 1..2 }
    \cup { TimedEvent(d, 9, 10) : d \in 0..2 }
DatedStores ==
  { [i \in {1} |-> e] : e \in DatedEvents }
    \cup { [i \in 1..2 |-> IF i = 1 THEN e ELSE TimedEvent(1, 14, 15)] :
             e \in DatedEvents }
WindowBounds ==
  { [date |-> d, hour |-> h, minute |-> 0, second |-> 0, microsecond |-> 0] :
      d \in 0..3, h \in {8, 20} }

DatedInit ==
  /\ store \in DatedStores
  /\ nextId = Cardinality(DOMAIN store) + 1
  /\ call = NoCall
  /\ pre = EmptyStore
  /\ found = Nothing
  /\ log = <<>>
  /\ result = Nothing
  /\ WrapperIdle
  /\ FlowIdle
  /\ window \in { w \in WindowBounds \X WindowBounds :
                    Timestamp(w[1]) < Timestamp(w[2]) }
  /\ busy = <<>>
  /\ duration \in {30, 720}
  /\ slots = <<>>
  /\ phase = "input"

\* find_available_slots from the listing of the events on
SearchDated ==
  /\ phase = "input"
  /\ call' = [tool |-> "find_available_slots", confirmed |-> FALSE]
  /\ busy' = BuildBusy(ListResources(store, window[1], window[2]))
  /\ slots' = SlotsInSeconds(Timestamp(window[1]), Timestamp(window[2]),
                             BuildBusy(ListResources(store, window[1], window[2])),
                             duration)
  /\ phase' = "done"
  /\ UNCHANGED <<store, nextId, pre, found, log, result, window, duration>>
  /\ UNCHANGED wrapVars
  /\ UNCHANGED flowVars

\* check_time_slot_availability of the window as the requested slot
CheckDated ==
  /\ phase = "input"
  /\ call' = [tool |-> "check_time_slot_availability", confirmed |-> FALSE]
  /\ found' = ConflictingIds(ListResources(store, window[1], window[2]),
                             window[1], window[2], 1, <<>>)
  /\ phase' = "done"
  /\ UNCHANGED <<store, nextId, pre, log, result, window, busy, duration, slots>>
  /\ UNCHANGED wrapVars
  /\ UNCHANGED flowVars

DatedNext == SearchDated \/ CheckDated

DatedSpec == DatedInit /\ [][DatedNext]_vars

\* The date phrases of the tools: every rule of parse_date_string, strings
\* that match no rule, and each of them in lower case, in upper case and
\* with capital first letters, on every day of a week.
Variants(s) == {s, Upper(s), Capitalized(s)}
WeekdayPhrases ==
  { weekdays[i] : i \in 1..Len(weekdays) }
    \cup { <<"n", "e", "x", "t", " ">> \o weekdays[i] : i \in 1..Len(weekdays) }
    \cup { <<"t", "h", "i", "s", " ">> \o weekdays[i] : i \in 1..Len(weekdays) }
RelativePhrases ==
  { <<"t", "o", "d", "a", "y">>,
    <<"t", "o", "m", "o", "r", "r", "o", "w">>,
    <<"y", "e", "s", "t", "e", "r", "d", "a", "y">> }
MonthPhrases ==
  { <<"j", "a", "n", "u", "a", "r", "y", " ", "1", "5">>,
    <<"s", "e", "p", "t", "e", "m", "b", "e", "r", " ", "5">>,
    <<"f", "e", "b", "r", "u", "a", "r", "y", " ", "3", "0">>,
    <<"o", "c", "t", "o", "b", "e", "r", " ", "3">> }
GrammarPhrases == RelativePhrases \cup WeekdayPhrases \cup MonthPhrases
OtherPhrases ==
  { <<"s", "o", "m", "e", "d", "a", "y">>,
    <<"i", "n", " ", "t", "w", "o", " ", "w", "e", "e", "k", "s">>,
    <<"n", "e", "x", "t", " ", "m", "o", "n", "t", "h">>,
    <<"1", "5", " ", "j", "a", "n", "u", "a", "r", "y">> }
LowerPhrases == GrammarPhrases \cup OtherPhrases
IsoPhrases ==
  { <<"2", "0", "1", "8", "-", "0", "1", "-", "0", "3", "T", "0", "9", ":", "0", "0", ":", "0", "0">>,
    <<"2", "0", "1", "8", "-", "0", "2", "-", "3", "0", "T", "0", "9", ":", "0", "0", ":", "0", "0">> }
DatePhrases == (UNION { Variants(s) : s \in LowerPhrases }) \cup IsoPhrases
DateClocks ==
  { [date |-> d, hour |-> 9, minute |-> 45, second |-> 10, microsecond |-> 7] :
      d \in 0..6 }

DateInit ==
  /\ store = EmptyStore
  /\ nextId = 1
  /\ pre = EmptyStore
  /\ found = Nothing
  /\ log = <<>>
  /\ result = Nothing
  /\ WrapperIdle
  /\ FlowIdle
  /\ SlotIdle
  /\ \E now \in DateClocks, date_str \in Opt(DatePhrases \cup {<<>>}) :
     \E end_date \in {None, date_str} :
       call = [tool |-> "none", confirmed |-> FALSE, now |-> now,
               date_str |-> date_str, end_date |-> end_date]

DateDone(tool, out) ==
  /\ call.tool = "none"
  /\ "date_str" \in DOMAIN call
  /\ call' = [call EXCEPT !.tool = tool]
  /\ result' = out
  /\ UNCHANGED <<store, nextId, pre, found, log>>
  /\ UNCHANGED slotVars
  /\ UNCHANGED wrapVars
  /\ UNCHANGED flowVars

\* list_calendar_events(start_date=date_str, end_date): the range it lists
ListEventsDates ==
  /\ "date_str" \in DOMAIN call
  /\ DateDone("list_calendar_events",
              ListRange(call.date_str, call.end_date, call.now))

\* find_events_by_name_and_date(event_name, date): the range it lists
FindEventsDates ==
  /\ "date_str" \in DOMAIN call
  /\ DateDone("find_events_by_name_and_date", FindRange(call.date_str, call.now))

\* parse_time_from_natural_language("9 AM", date_str)
ParseTimeDate ==
  /\ "date_str" \in DOMAIN call
  /\ DateDone("parse_time_from_natural_language",
              parse_time_from_natural_language(<<"9", " ", "A", "M">>, call.date_str, call.now))

\* find_available_slots(day=date_str): the window it searches
SlotDay ==
  /\ "date_str" \in DOMAIN call
  /\ DateDone("find_available_slots",
              Value(SearchWindow(call.now, call.date_str, None, None, None)))

DateNext == ListEventsDates \/ FindEventsDates \/ ParseTimeDate \/ SlotDay

DateSpec == DateInit /\ [][DateNext]_vars

\* parse_time_from_natural_language on time strings written from an hour,
\* a minute and a way of writing them, and on strings of no such form.
\* "05", "30": a number below 100 in two digits
TwoDigits(n) == <<digits[(n \div 10) + 1], digits[(n % 10) + 1]>>
\* "5", "14": without a leading zero
Plain(n) == IF n < 10 THEN <<digits[n + 1]>> ELSE TwoDigits(n)
Hours == 0..25
HalfDayHours == 0..13
Minutes == (0..60) \cup {99}
\* the ways a time is written: [form, pad, minute, sep, period]
Writings ==
  [form : {"24h"}, pad : BOOLEAN, minute : {TRUE}, sep : {<<>>}, period : {<<>>}]
    \cup [form : {"12h"}, pad : {FALSE}, minute : BOOLEAN,
          sep : {<<>>, <<" ">>}, period : {<<"a", "m">>, <<"p", "m">>, <<"A", "M">>, <<"P", "M">>}]
Written(h, m, w) ==
  (IF w.pad THEN TwoDigits(h) ELSE Plain(h))
    \o (IF w.minute THEN <<":">> \o TwoDigits(m) ELSE <<>>)
    \o w.sep \o w.period
OtherTimes ==
  { <<>>,
    <<"n", "o", "o", "n">>,
    <<"1", "4">>,
    <<"1", "4", ":", "5">>,
    <<"2", ":", "3", "0", ":", "0", "0">>,
    <<"1", "4", ":", "0", "0", " ", "h">>,
    <<"2", " ", "p", ".", "m", ".">>,
    <<"p", "m">>,
    <<":", "3", "0", " ", "a", "m">>,
    <<" ", "n", "o", "o", "n", " ">>,
    <<"2", " ", ":", "3", "0", " ", "p", "m">>,
    <<"1", "2", "3", " ", "p", "m">>,
    <<"1", ":", "3", " ", "p", "m">> }
TimeDates ==
  { <<"t", "o", "m", "o", "r", "r", "o", "w">>,
    <<"f", "e", "b", "r", "u", "a", "r", "y", " ", "3", "0">> }

TimeInit ==
  /\ store = EmptyStore
  /\ nextId = 1
  /\ pre = EmptyStore
  /\ found = Nothing
  /\ log = <<>>
  /\ result = Nothing
  /\ WrapperIdle
  /\ FlowIdle
  /\ SlotIdle
  /\ \E now \in {c \in DateClocks : c.date = 3}, date_str \in Opt(TimeDates) :
       \/ \E h \in Hours, m \in Minutes, w \in Writings :
            /\ (~w.minute) => m = 0
            /\ (w.form = "12h") => h \in HalfDayHours
            /\ call = [tool |-> "none", confirmed |-> FALSE, now |-> now,
                       date_str |-> date_str, time_str |-> Written(h, m, w),
                       form |-> w.form, hour |-> h, minute |-> m,
                       period |-> Lower(w.period)]
       \/ \E t \in OtherTimes :
            call = [tool |-> "none", confirmed |-> FALSE, now |-> now,
                    date_str |-> date_str, time_str |-> t,
                    form |-> "other", hour |-> 0, minute |-> 0, period |-> <<>>]

ParseTime ==
  /\ call.tool = "none"
  /\ "time_str" \in DOMAIN call
  /\ call' = [call EXCEPT !.tool = "parse_time_from_natural_language"]
  /\ result' = parse_time_from_natural_language(call.time_str, call.date_str, call.now)
  /\ UNCHANGED <<store, nextId, pre, found, log>>
  /\ UNCHANGED slotVars
  /\ UNCHANGED wrapVars
  /\ UNCHANGED flowVars

TimeNext == ParseTime

TimeSpec == TimeInit /\ [][TimeNext]_vars
\* is_voice_confirmation on what a user may say: sentences that hold a
\* keyword (alone, inside a longer word, inside a refusal), sentences that
\* hold none, and sentences whose words are set apart by more than one blank
\* or by a tab; each in three writings and with white space around it.
KeywordSayings ==
  { <<"y", "e", "s">>,
    <<"y", "e", "s", " ", "p", "l", "e", "a", "s", "e">>,
    <<"o", "k">>,
    <<"g", "o", " ", "a", "h", "e", "a", "d">>,
    <<"s", "u", "r", "e", " ", "t", "h", "i", "n", "g">>,
    <<"t", "h", "a", "t", "'", "s", " ", "r", "i", "g", "h", "t">>,
    <<"s", "o", "u", "n", "d", "s", " ", "g", "o", "o", "d">>,
    <<"n", "o", "t", " ", "o", "k", "a", "y">>,
    <<"t", "o", "k", "e", "n">>,
    <<"y", "e", "s", "t", "e", "r", "d", "a", "y">>,
    <<"d", "o", "n", "'", "t", " ", "d", "e", "l", "e", "t", "e", " ", "i", "t">>,
    <<"n", "o", " ", "p", "r", "o", "b", "l", "e", "m">>,
    <<"i", "'", "m", " ", "n", "o", "t", " ", "s", "u", "r", "e">>,
    <<"d", "o", " ", "i", "t", " ", "n", "o", "w">>,
    <<"y", "e", "s", "\t", "p", "l", "e", "a", "s", "e">>,
    <<"t", "h", "a", "t", " ", "i", "s", " ", "n", "o", "t", " ", "r", "i", "g", "h", "t">> }
OtherSayings ==
  { <<"n", "o">>,
    <<"c", "a", "n", "c", "e", "l">>,
    <<"n", "o", "p", "e">>,
    <<"s", "t", "o", "p">>,
    <<"n", "e", "v", "e", "r", " ", "m", "i", "n", "d">>,
    <<"w", "a", "i", "t">>,
    <<"g", "o">>,
    <<"m", "a", "y", "b", "e", " ", "l", "a", "t", "e", "r">>,
    <<"g", "o", " ", " ", "a", "h", "e", "a", "d">>,
    <<"d", "o", " ", " ", "i", "t">>,
    <<" ">> }
WideSayings ==
  { <<"g", "o", " ", " ", "a", "h", "e", "a", "d", " ", "n", "o", "w">>,
    <<"g", "o", "\t", "a", "h", "e", "a", "d", " ", "n", "o", "w">>,
    <<"d", "o", " ", " ", "i", "t", " ", "n", "o", "w">>,
    <<"c", "r", "e", "a", "t", "e", " ", " ", "i", "t", " ", "t", "h", "e", "n">>,
    <<"d", "e", "l", "e", "t", "e", "\t", "i", "t", " ", "n", "o", "w">>,
    <<"u", "p", "d", "a", "t", "e", " ", " ", "i", "t", " ", "t", "h", "e", "n">> }
Paddings == { <<<<>>, <<>>>>, <<<<" ">>, <<>>>>, <<<<>>, <<" ">>>>, <<<<"\t">>, <<" ", "\n">>>> }
Said(s, pad) == pad[1] \o s \o pad[2]

VoiceInit ==
  /\ store = EmptyStore
  /\ nextId = 1
  /\ pre = EmptyStore
  /\ found = Nothing
  /\ log = <<>>
  /\ result = Nothing
  /\ WrapperIdle
  /\ FlowIdle
  /\ SlotIdle
  /\ \/ call = [tool |-> "none", confirmed |-> FALSE, user_input |-> <<>>,
               keyword |-> FALSE, wide |-> FALSE]
     \/ \E pad \in Paddings :
          \/ \E s \in KeywordSayings : \E v \in Variants(s) :
               call = [tool |-> "none", confirmed |-> FALSE,
                       user_input |-> Said(v, pad), keyword |-> TRUE, wide |-> FALSE]
          \/ \E s \in OtherSayings : \E v \in Variants(s) :
               call = [tool |-> "none", confirmed |-> FALSE,
                       user_input |-> Said(v, pad), keyword |-> FALSE, wide |-> FALSE]
          \/ \E s \in WideSayings : \E v \in Variants(s) :
               call = [tool |-> "none", confirmed |-> FALSE,
                       user_input |-> Said(v, pad), keyword |-> FALSE, wide |-> TRUE]

VoiceConfirmation ==
  /\ call.tool = "none"
  /\ "user_input" \in DOMAIN call
  /\ call' = [call EXCEPT !.tool = "is_voice_confirmation"]
  /\ result' = [ret |-> is_voice_confirmation(call.user_input)]
  /\ UNCHANGED <<store, nextId, pre, found, log>>
  /\ UNCHANGED slotVars
  /\ UNCHANGED wrapVars
  /\ UNCHANGED flowVars

VoiceNext == VoiceConfirmation

VoiceSpec == VoiceInit /\ [][VoiceNext]_vars

\* The locator and the by-name tools on a calendar that holds an event with
\* an empty title or with no title at all, alone or next to a titled event.
EmptyTitle == [summary |-> <<>>, start |-> 0, end |-> 1]
NoTitle == [start |-> 0, end |-> 1]
UntitledStores ==
  { [i \in {1} |-> e] : e \in {EmptyTitle, NoTitle} }
  \cup { [i \in 1..2 |-> IF i = 1 THEN e
                         ELSE [summary |-> <<"b">>, start |-> 1, end |-> 2]] :
         e \in {EmptyTitle, NoTitle} }

UntitledInit ==
  /\ store \in UntitledStores
  /\ nextId = Cardinality(DOMAIN store) + 1
  /\ call = NoCall
  /\ pre = EmptyStore
  /\ found = Nothing
  /\ log = <<>>
  /\ result = Nothing
  /\ SlotIdle
  /\ WrapperIdle
  /\ FlowIdle

UntitledNext ==
  \/ FindEvents
  \/ DeleteByName
  \/ UpdateByName
  \/ TakeResult

UntitledSpec == UntitledInit /\ [][UntitledNext]_vars

\* The creating and updating tools called with every pair of instants, in
\* either order, and with every choice of the two time arguments of an
\* update; the backend answers every request at once.
AnyTimes == Times \X Times
TimePatches ==
  { [NoPatch EXCEPT !.start_iso = s, !.end_iso = e] : s \in Opt(Times), e \in Opt(Times) }

CreateAnyTimes ==
  \E iv \in AnyTimes, confirmed \in BOOLEAN, skip \in BOOLEAN :
     Finish([tool |-> "create_calendar_event", confirmed |-> confirmed,
             skip_conflict_check |-> skip, start_iso |-> iv[1], end_iso |-> iv[2],
             summary |-> <<"a">>],
            create_calendar_event(store, nextId, iv[1], iv[2], <<"a">>,
                                  confirmed, skip, AllOk, AllOk))

UpdateAnyTimes ==
  \E event_id \in Ids, confirmed \in BOOLEAN, p \in TimePatches :
     Finish([tool |-> "update_calendar_event", confirmed |-> confirmed,
             event_id |-> event_id, start_iso |-> p.start_iso, end_iso |-> p.end_iso],
            update_calendar_event(store, nextId, event_id, p.start_iso, p.end_iso,
                                  p.summary, p.description, p.attendees,
                                  confirmed, AllOk))

UpdateNamedAnyTimes ==
  \E confirmed \in BOOLEAN, p \in TimePatches :
     Finish([tool |-> "update_event_by_name_and_date", confirmed |-> confirmed,
             event_name |-> <<"a">>, date |-> None,
             start_iso |-> p.start_iso, end_iso |-> p.end_iso],
            update_event_by_name_and_date(store, nextId, <<"a">>, None,
                                          p.start_iso, p.end_iso, p.summary,
                                          p.description, p.attendees,
                                          confirmed, AllOk, AllOk))

IntervalNext ==
  \/ CreateAnyTimes
  \/ UpdateAnyTimes
  \/ UpdateNamedAnyTimes
  \/ TakeResult

IntervalSpec == Init /\ [][IntervalNext]_vars


\* safe_api_call on its own: every request of the tools, on a backend that
\* holds nothing or one event, under every outcome of the three attempts.
OneEvent == [i \in {1} |-> [summary |-> <<"a">>, start |-> 0, end |-> 1]]
RetryStores == {EmptyStore, OneEvent}
Requests ==
  { [fn |-> "_delete_event", event_id |-> i] : i \in Ids }
  \cup { [fn |-> "_update_event", event_id |-> i, start_iso |-> p.start_iso,
         end_iso |-> p.end_iso, summary |-> p.summary,
         description |-> p.description, attendees |-> p.attendees] :
         i \in Ids, p \in Patches }
  \cup { [fn |-> "_create_event", summary |-> <<"b">>, start_iso |-> iv[1],
         end_iso |-> iv[2]] : iv \in Intervals }
  \cup { [fn |-> "_check_availability", start_iso |-> iv[1], end_iso |-> iv[2]] :
         iv \in Intervals }
  \cup { [fn |-> "_find_events", event_name |-> t, date |-> None] : t \in Titles }

RetryInit ==
  /\ store \in RetryStores
  /\ nextId = Cardinality(DOMAIN store) + 1
  /\ call = NoCall
  /\ pre = EmptyStore
  /\ found = Nothing
  /\ log = <<>>
  /\ result = Nothing
  /\ SlotIdle
  /\ FlowIdle
  /\ \E req \in Requests, script \in WriteScripts :
        retry = [attempts |-> 0, req |-> req, script |-> script]

\* safe_api_call returned r (or raised r.exc)
WrapperDone(r) ==
  /\ call' = [tool |-> "safe_api_call", confirmed |-> FALSE]
  /\ pre' = store
  /\ store' = r.store
  /\ nextId' = r.nextId
  /\ found' = Nothing
  /\ log' = r.log
  /\ result' = IF r.exc = "none" THEN r.ret ELSE [raised |-> r.exc]
  /\ retry' = [retry EXCEPT !.attempts = r.attempts] @@
               [sleeps |-> r.sleeps, nextId |-> nextId]
  /\ UNCHANGED slotVars
  /\ UNCHANGED flowVars

SafeApiCall ==
  /\ call = NoCall
  /\ "req" \in DOMAIN retry
  /\ WrapperDone(safe_api_call(retry.req, store, nextId, retry.script))

RetryNext == SafeApiCall

RetrySpec == RetryInit /\ [][RetryNext]_vars

\* Two create flows running side by side on a calendar that starts free.
\* Each flow proposes an interval, calls create_calendar_event with
\* confirmed=false and, when told pending_confirmation, calls it again with
\* confirmed=true.  A tool call makes one backend request, so the calls of
\* the two flows interleave call by call.
Flows == 1..2
StatusOfAnswer(f) ==
  IF "status" \in DOMAIN flows[f].answer THEN flows[f].answer.status ELSE "(no status)"
FlowStart ==
  { [pc |-> "start", start_iso |-> iv[1], end_iso |-> iv[2], summary |-> t,
     answer |-> Nothing] : iv \in Intervals, t \in {<<"a">>, <<"b">>} }

ConcInit ==
  /\ ToolInit
  /\ SlotIdle
  /\ WrapperIdle
  /\ flows \in [Flows -> FlowStart]

\* the call of flow f returned out (or raised): the backend after it and
\* where the flow stands
FlowReturns(f, pc, out) ==
  /\ store' = out.store
  /\ nextId' = out.nextId
  /\ flows' = [flows EXCEPT ![f].pc = IF out.exc = "none" THEN pc ELSE "failed",
                            ![f].answer = IF out.exc = "none" THEN out.ret
                                          ELSE [raised |-> out.exc]]
  /\ UNCHANGED <<call, pre, found, log, result>>
  /\ UNCHANGED slotVars
  /\ UNCHANGED wrapVars

FlowAsk(f) ==
  /\ flows[f].pc = "start"
  /\ FlowReturns(f, "asked",
        create_calendar_event(store, nextId, flows[f].start_iso, flows[f].end_iso,
                              flows[f].summary, FALSE, FALSE, AllOk, AllOk))

FlowConfirm(f) ==
  /\ flows[f].pc = "asked"
  /\ StatusOfAnswer(f) = "pending_confirmation"
  /\ FlowReturns(f, "created",
        create_calendar_event(store, nextId, flows[f].start_iso, flows[f].end_iso,
                              flows[f].summary, TRUE, FALSE, AllOk, AllOk))

ConcNext ==
  \/ \E f \in Flows : FlowAsk(f)
  \/ \E f \in Flows : FlowConfirm(f)

ConcSpec == ConcInit /\ [][ConcNext]_vars

\* The same action confirmed twice over, on two copies of the same
\* calendar: run 1 first calls the tool with confirmed=false and then with
\* confirmed=true, run 2 calls it with confirmed=true at once.  Both
\* confirmed calls meet the same outcomes of the backend's attempts.
AskedFirst == 1
Direct == 2
TwoEvents ==
  [i \in 1..2 |-> IF i = 1 THEN [summary |-> <<"a">>, start |-> 0, end |-> 1]
                           ELSE [summary |-> <<"A", "b">>, start |-> 1, end |-> 2]]
GateStores == {EmptyStore, OneEvent, TwoEvents}
GateActions ==
  { [tool |-> "create_calendar_event", start_iso |-> iv[1], end_iso |-> iv[2],
     summary |-> <<"b">>] : iv \in Intervals }
  \cup { [tool |-> "update_calendar_event", event_id |-> i, patch |-> p] :
         i \in Ids, p \in Patches }
  \cup { [tool |-> "delete_calendar_event", event_id |-> i] : i \in Ids }
  \cup { [tool |-> "update_event_by_name_and_date", event_name |-> t, patch |-> p] :
         t \in Titles, p \in Patches }
  \cup { [tool |-> "delete_event_by_name_and_date", event_name |-> t] : t \in Titles }

\* the agent calls the tool the action names
CallTool(a, st, nid, confirmed, s1, s2) ==
  CASE a.tool = "create_calendar_event" ->
         create_calendar_event(st, nid, a.start_iso, a.end_iso, a.summary,
                               confirmed, FALSE, s1, s2)
    [] a.tool = "update_calendar_event" ->
         update_calendar_event(st, nid, a.event_id, a.patch.start_iso,
                               a.patch.end_iso, a.patch.summary,
                               a.patch.description, a.patch.attendees, confirmed, s2)
    [] a.tool = "delete_calendar_event" ->
         delete_calendar_event(st, nid, a.event_id, confirmed, s2)
    [] a.tool = "update_event_by_name_and_date" ->
         update_event_by_name_and_date(st, nid, a.event_name, None,
                                       a.patch.start_iso, a.patch.end_iso,
                                       a.patch.summary, a.patch.description,
                                       a.patch.attendees, confirmed, s1, s2)
    [] a.tool = "delete_event_by_name_and_date" ->
         delete_event_by_name_and_date(st, nid, a.event_name, None, confirmed, s1, s2)

GateInit ==
  /\ ToolInit
  /\ SlotIdle
  /\ WrapperIdle
  /\ \E st \in GateStores, a \in GateActions, script \in WriteScripts :
        flows = [r \in {AskedFirst, Direct} |->
                   [pc |-> "start", store |-> st,
                    nextId |-> Cardinality(DOMAIN st) + 1,
                    action |-> a, script |-> script, answer |-> Nothing]]

\* the call of run r returned out (or raised)
RunReturns(r, pc, out) ==
  /\ flows' = [flows EXCEPT ![r].pc = pc,
                            ![r].store = out.store,
                            ![r].nextId = out.nextId,
                            ![r].answer = IF out.exc = "none" THEN out.ret
                                          ELSE [raised |-> out.exc]]
  /\ UNCHANGED toolVars
  /\ UNCHANGED slotVars
  /\ UNCHANGED wrapVars

GateAsk ==
  /\ flows[AskedFirst].pc = "start"
  /\ \E s1 \in ReadScripts :
        RunReturns(AskedFirst, "asked",
          CallTool(flows[AskedFirst].action, flows[AskedFirst].store,
                   flows[AskedFirst].nextId, FALSE, s1, AllOk))

GateConfirm(r) ==
  /\ flows[r].pc = IF r = AskedFirst THEN "asked" ELSE "start"
  /\ RunReturns(r, "done",
        CallTool(flows[r].action, flows[r].store, flows[r].nextId, TRUE,
                 AllOk, flows[r].script))

GateNext ==
  \/ GateAsk
  \/ \E r \in {AskedFirst, Direct} : GateConfirm(r)

GateSpec == GateInit /\ [][GateNext]_vars

\* A by-name delete or update asked and then confirmed, on a calendar that
\* someone else also writes to: the caller calls the tool with
\* confirmed=false, is shown the pending_confirmation prompt, and calls it
\* again with the same arguments and confirmed=true; between the two calls
\* other users of the calendar insert and delete events.
NamedActions ==
  { [tool |-> "delete_event_by_name_and_date", event_name |-> t, patch |-> NoPatch] :
      t \in Titles }
  \cup { [tool |-> "update_event_by_name_and_date", event_name |-> t,
          patch |-> [NoPatch EXCEPT !.start_iso = <<0>>, !.end_iso = <<MaxTime>>]] :
         t \in Titles }

CallNamed(a, st, nid, confirmed) ==
  IF a.tool = "delete_event_by_name_and_date"
  THEN delete_event_by_name_and_date(st, nid, a.event_name, None, confirmed,
                                     AllOk, AllOk)
  ELSE update_event_by_name_and_date(st, nid, a.event_name, None,
                                     a.patch.start_iso, a.patch.end_iso,
                                     a.patch.summary, a.patch.description,
                                     a.patch.attendees, confirmed, AllOk, AllOk)

StaleInit ==
  /\ store \in {OneEvent, TwoEvents}
  /\ nextId = Cardinality(DOMAIN store) + 1
  /\ call = NoCall
  /\ pre = EmptyStore
  /\ found = Nothing
  /\ log = <<>>
  /\ result = Nothing
  /\ SlotIdle
  /\ WrapperIdle
  /\ \E a \in NamedActions :
        flows = [pc |-> "start", action |-> a, prompt |-> Nothing]

\* the confirmed=false call: the prompt the caller is shown
NamedAsk ==
  /\ flows.pc = "start"
  /\ CallNamed(flows.action, store, nextId, FALSE).exc = "none"
  /\ flows' = [flows EXCEPT !.pc = "asked",
                            !.prompt = CallNamed(flows.action, store, nextId, FALSE).ret]
  /\ UNCHANGED toolVars
  /\ UNCHANGED slotVars
  /\ UNCHANGED wrapVars

\* another user of the calendar inserts an event
OtherInsert ==
  /\ flows.pc = "asked"
  /\ nextId <= MaxIds
  /\ \E t \in Titles, iv \in Intervals :
        store' = BackendInsert(store, nextId,
                               [summary |-> t, start |-> iv[1], end |-> iv[2]])
  /\ nextId' = nextId + 1
  /\ UNCHANGED <<call, pre, found, log, result, flows>>
  /\ UNCHANGED slotVars
  /\ UNCHANGED wrapVars

\* another user of the calendar deletes an event
OtherDelete ==
  /\ flows.pc = "asked"
  /\ \E i \in DOMAIN store : store' = BackendDelete(store, i)
  /\ UNCHANGED <<nextId, call, pre, found, log, result, flows>>
  /\ UNCHANGED slotVars
  /\ UNCHANGED wrapVars

\* the tool called again with confirmed=true returned out (or raised)
ConfirmReturns(out) ==
  /\ call' = [tool |-> flows.action.tool, confirmed |-> TRUE,
              event_name |-> flows.action.event_name]
  /\ pre' = store
  /\ store' = out.store
  /\ nextId' = out.nextId
  /\ found' = out.found
  /\ log' = out.log
  /\ result' = IF out.exc = "none" THEN out.ret ELSE [raised |-> out.exc]
  /\ flows' = [flows EXCEPT !.pc = "done"]
  /\ UNCHANGED slotVars
  /\ UNCHANGED wrapVars

NamedConfirm ==
  /\ flows.pc = "asked"
  /\ "status" \in DOMAIN flows.prompt
  /\ flows.prompt.status = "pending_confirmation"
  /\ ConfirmReturns(CallNamed(flows.action, store, nextId, TRUE))

StaleNext ==
  \/ NamedAsk
  \/ OtherInsert
  \/ OtherDelete
  \/ NamedConfirm

StaleSpec == StaleInit /\ [][StaleNext]_vars

\* Confirmed updates of an event that carries every field an update can
\* set, and one it cannot; the other event of the calendar is left alone.
FullEvent ==
  [summary |-> <<"a">>, start |-> 1, end |-> 2, description |-> "old",
   attendees |-> <<[email |-> "p"]>>, location |-> "room"]
BareEvent == [summary |-> <<"a">>, start |-> 1, end |-> 2]
OtherEvent == [summary |-> <<"b">>, start |-> 0, end |-> 1, location |-> "hall"]
UpdateStores ==
  { [i \in 1..2 |-> IF i = 1 THEN e ELSE OtherEvent] : e \in {FullEvent, BareEvent} }
AllPatches ==
  [start_iso : Opt({0}), end_iso : Opt({1}), summary : Opt({<<"b">>}),
   description : Opt({"", "new"}), attendees : Opt({<<>>, <<"q">>})]

UpdateInit ==
  /\ store \in UpdateStores
  /\ nextId = 3
  /\ call = NoCall
  /\ pre = EmptyStore
  /\ found = Nothing
  /\ log = <<>>
  /\ result = Nothing
  /\ SlotIdle
  /\ WrapperIdle
  /\ FlowIdle

UpdateById ==
  \E event_id \in DOMAIN store, p \in AllPatches, script \in WriteScripts :
     Finish([tool |-> "update_calendar_event", confirmed |-> TRUE,
             event_id |-> event_id, patch |-> p],
            update_calendar_event(store, nextId, event_id, p.start_iso, p.end_iso,
                                  p.summary, p.description, p.attendees,
                                  TRUE, script))

UpdateNamed ==
  \E event_name \in Titles, p \in AllPatches, script \in WriteScripts :
     Finish([tool |-> "update_event_by_name_and_date", confirmed |-> TRUE,
             event_name |-> event_name, date |-> None, patch |-> p],
            update_event_by_name_and_date(store, nextId, event_name, None,
                                          p.start_iso, p.end_iso, p.summary,
                                          p.description, p.attendees,
                                          TRUE, AllOk, script))

UpdateNext ==
  \/ UpdateById
  \/ UpdateNamed

UpdateSpec == UpdateInit /\ [][UpdateNext]_vars

\* Two confirmed updates of the same event side by side.  _update_event
\* makes two backend requests, events().get and events().update, and the
\* requests of the two callers interleave; the two callers supply disjoint
\* sets of fields.
PatchKeys(p) ==
  SuppliedKeys(p.start_iso, p.end_iso, p.summary, p.description, p.attendees)
RacePatches ==
  { p \in AllPatches : p.description # <<"">> /\ p.attendees # << <<>> >> }
RacePairs ==
  { pq \in RacePatches \X RacePatches :
      /\ PatchKeys(pq[1]) # {}
      /\ PatchKeys(pq[2]) # {}
      /\ PatchKeys(pq[1]) \cap PatchKeys(pq[2]) = {} }

RaceInit ==
  /\ store \in UpdateStores
  /\ nextId = 3
  /\ call = NoCall
  /\ pre = store
  /\ found = Nothing
  /\ log = <<>>
  /\ result = Nothing
  /\ SlotIdle
  /\ WrapperIdle
  /\ \E pq \in RacePairs :
        flows = [u \in 1..2 |-> [pc |-> "start", event_id |-> 1, patch |-> pq[u],
                                 event |-> None]]

\* event = service.events().get(eventId=event_id).execute()
GetEvent(u) ==
  /\ flows[u].pc = "start"
  /\ flows' = [flows EXCEPT ![u].pc = "fetched",
                            ![u].event = Resource(store, flows[u].event_id)]
  /\ log' = Append(log, [op |-> "get", id |-> flows[u].event_id, by |-> u])
  /\ UNCHANGED <<store, nextId, call, pre, found, result>>
  /\ UNCHANGED slotVars
  /\ UNCHANGED wrapVars

PutEventFetchedAnew(u) ==
  /\ flows[u].pc = "fetched"
  /\ store' = BackendUpdate(store, flows[u].event_id,
                 MergeFields(Resource(store, flows[u].event_id),
                             flows[u].patch.start_iso, flows[u].patch.end_iso,
                             flows[u].patch.summary, flows[u].patch.description,
                             flows[u].patch.attendees))
  /\ flows' = [flows EXCEPT ![u].pc = "done"]
  /\ log' = Append(log, [op |-> "update", id |-> flows[u].event_id, by |-> u])
  /\ UNCHANGED <<nextId, call, pre, found, result>>
  /\ UNCHANGED slotVars
  /\ UNCHANGED wrapVars

\* the fields supplied are set in the fetched event, and
\* service.events().update(eventId=event_id, body=event).execute()
PutEvent(u) ==
  /\ flows[u].pc = "fetched"
  /\ store' = BackendUpdate(store, flows[u].event_id,
                 MergeFields(flows[u].event,
                             flows[u].patch.start_iso, flows[u].patch.end_iso,
                             flows[u].patch.summary, flows[u].patch.description,
                             flows[u].patch.attendees))
  /\ flows' = [flows EXCEPT ![u].pc = "done"]
  /\ log' = Append(log, [op |-> "update", id |-> flows[u].event_id, by |-> u])
  /\ UNCHANGED <<nextId, call, pre, found, result>>
  /\ UNCHANGED slotVars
  /\ UNCHANGED wrapVars

RaceNext ==
  \/ \E u \in 1..2 : GetEvent(u)
  \/ \E u \in 1..2 : PutEvent(u)

RaceSpec == RaceInit /\ [][RaceNext]_vars

\* ------------------------------------------------------------------ claims
MutatingTools ==
  {"create_calendar_event", "update_calendar_event", "delete_calendar_event",
   "update_event_by_name_and_date", "delete_event_by_name_and_date"}
ByNameTools == {"update_event_by_name_and_date", "delete_event_by_name_and_date"}
LocatorTools == ByNameTools \cup {"find_events_by_name_and_date"}
StatusVocabulary ==
  {"pending_confirmation", "conflict_detected", "no_events_found",
   "multiple_events_found", "deleted", "connection_error"}

Returned == "raised" \notin DOMAIN result /\ "nothing" \notin DOMAIN result
StatusOf(r) == IF "status" \in DOMAIN r THEN r.status ELSE "(no status)"
\* the locator answered with its list of matches
Located == "events" \in DOMAIN found
Matches == IF Located THEN found.events ELSE <<>>
\* an event of the store as it was before the call is in the store unchanged
Untouched(i) == i \in DOMAIN store /\ store[i] = pre[i]

\* C1: a call of a mutating tool with confirmed=false issues no insert,
\* update or delete: the backend store after the call equals the store
\* before it.
C1_UnconfirmedLeavesStore ==
  (call.tool \in MutatingTools /\ ~call.confirmed)
     => (store = pre /\ log = <<>>)

C1_Witness ==
  /\ call.tool = "delete_calendar_event"
  /\ ~call.confirmed
  /\ call.event_id \in DOMAIN store
  /\ StatusOf(result) = "pending_confirmation"

\* C2: no event inserted by create_calendar_event called with
\* skip_conflict_check=false overlaps an event that was in the backend when
\* it was inserted.
C2_CreateNeverOverlaps ==
  (call.tool = "create_calendar_event" /\ ~call.skip_conflict_check)
     => \A k \in 1..Len(log) : \A i \in DOMAIN pre :
           ~ ( /\ pre[i].start < store[log[k].id].end
               /\ pre[i].end > store[log[k].id].start )

\* C3: in update/delete by name, zero matches give no_events_found, several
\* matches give multiple_events_found with every candidate listed, and in
\* both cases nothing is updated or deleted, whatever confirmed is.
C3_ZeroOrManyNeverMutates ==
  (call.tool \in ByNameTools /\ Located)
     => /\ Len(Matches) = 0 =>
             /\ StatusOf(result) = "no_events_found"
             /\ store = pre /\ log = <<>>
        /\ Len(Matches) > 1 =>
             /\ StatusOf(result) = "multiple_events_found"
             /\ "matching_events" \in DOMAIN result
             /\ result.matching_events = Matches
             /\ store = pre /\ log = <<>>

C3_Witness ==
  /\ call.tool = "delete_event_by_name_and_date"
  /\ call.confirmed
  /\ Located /\ Len(Matches) = 2
  /\ StatusOf(result) = "multiple_events_found"

\* C4 as stated: a confirmed update/delete by name with exactly one match
\* applies exactly one mutation, on the matched event.
C4_ExactlyOneMutation ==
  (call.tool \in ByNameTools /\ call.confirmed /\ Located /\ Len(Matches) = 1)
     => (Len(log) = 1 /\ log[1].id = Matches[1].id)

\* C4 (amended): a confirmed update/delete by name with exactly one match
\* mutates only the matched event, at most once per attempt of the retry
\* wrapper, and at least once when it reports success; every other event
\* stays as it was.
C4_OnlyTheMatchedEvent ==
  (call.tool \in ByNameTools /\ call.confirmed /\ Located /\ Len(Matches) = 1)
     => /\ Len(log) <= max_retries
        /\ \A k \in 1..Len(log) :
              /\ log[k].id = Matches[1].id
              /\ log[k].op = IF call.tool = "delete_event_by_name_and_date"
                             THEN "delete" ELSE "update"
        /\ \A i \in DOMAIN pre \ {Matches[1].id} : Untouched(i)
        /\ DOMAIN store \subseteq DOMAIN pre
        /\ (StatusOf(result) = "deleted" \/ "id" \in DOMAIN result) => Len(log) >= 1
        /\ StatusOf(result) = "deleted" => Matches[1].id \notin DOMAIN store

C4_Witness ==
  /\ call.tool = "delete_event_by_name_and_date"
  /\ call.confirmed
  /\ Located /\ Len(Matches) = 1
  /\ Cardinality(DOMAIN pre) = 2
  /\ Len(log) = 1
  /\ StatusOf(result) = "deleted"

\* C5: when a backend call inside a tool uses up its retries on transient
\* errors (here: the read the tool makes first, whose answer is then the
\* connection_error dict), the tool returns status connection_error and
\* does not raise.
C5_ExhaustedReadGivesConnectionError ==
  StatusOf(found) = "connection_error"
     => (Returned /\ StatusOf(result) = "connection_error")

\* C6: every result a mutating tool returns carries a status of the fixed
\* vocabulary or is the backend record of the event (has an id).
C6_ResultShapes ==
  (call.tool \in MutatingTools /\ Returned)
     => \/ StatusOf(result) \in StatusVocabulary
        \/ "id" \in DOMAIN result

C6_Witness ==
  /\ call.tool = "update_calendar_event"
  /\ Returned
  /\ StatusOf(result) = "connection_error"

\* The events listed for the search window of the call just made.
Fetched ==
  LET w == DateWindow(call.date) IN BackendList(pre, w.min, w.max)
\* t1 is a proper substring of t2
ProperSubstring(t1, t2) == t1 # t2 /\ Contains(t1, t2)
\* the window holds exactly two events, titled t1 and t2
WindowHolds(t1, t2) ==
  /\ Len(Fetched) = 2
  /\ {Fetched[1].summary, Fetched[2].summary} = {t1, t2}

\* C7 as stated: with two events titled T1 and T2 in the window, T1 a proper
\* substring of T2, a query for T1 returns both and a query for T2 returns
\* exactly the event titled T2.
C7_LongerTitleIsUnique ==
  (call.tool \in LocatorTools /\ Located)
     => \A t1 \in Titles, t2 \in Titles :
          (ProperSubstring(t1, t2) /\ WindowHolds(t1, t2))
             => /\ call.event_name = t1 => Matches = Fetched
                /\ call.event_name = t2 =>
                     (Len(Matches) = 1 /\ Matches[1].summary = t2)

\* C7 (amended): with two events titled T1 and T2 in the window, T1 a proper
\* substring of T2, a query for T1 and a query for T2 both return both
\* events (T1 is contained in the query T2), so update/delete by name report
\* multiple_events_found for either query.
C7_BothQueriesReturnBoth ==
  (call.tool \in LocatorTools /\ Located)
     => \A t1 \in Titles, t2 \in Titles :
          (ProperSubstring(t1, t2) /\ WindowHolds(t1, t2)
             /\ call.event_name \in {t1, t2})
             => /\ Matches = Fetched
                /\ call.tool \in ByNameTools =>
                     StatusOf(result) = "multiple_events_found"

C7_Witness ==
  /\ call.tool = "delete_event_by_name_and_date"
  /\ Located
  /\ call.event_name = <<"A", "b">>
  /\ WindowHolds(<<"b">>, <<"A", "b">>)
  /\ Len(Matches) = 2
  /\ StatusOf(result) = "multiple_events_found"

\* position of the event with id i in the sequence es (0 when absent)
PositionOf(es, i) ==
  IF \E k \in 1..Len(es) : es[k].id = i
  THEN CHOOSE k \in 1..Len(es) : es[k].id = i
  ELSE 0

\* C8: the locator returns exactly the fetched events whose lowercased title
\* contains the lowercased query or is contained in it, in the backend's
\* order (start ascending), none dropped and none twice.
C8_LocatorFilter ==
  (call.tool = "find_events_by_name_and_date" /\ Located)
     => LET q == Lower(call.event_name)
            hit(e) == \/ Contains(q, Lower(e.summary))
                      \/ Contains(Lower(e.summary), q)
        IN /\ \A k \in 1..Len(Fetched) :
                hit(Fetched[k]) <=> (\E j \in 1..Len(Matches) : Matches[j] = Fetched[k])
           /\ \A j \in 1..Len(Matches) : PositionOf(Fetched, Matches[j].id) > 0
           /\ \A j \in 1..Len(Matches) : \A k \in 1..Len(Matches) :
                j < k => /\ PositionOf(Fetched, Matches[j].id)
                              < PositionOf(Fetched, Matches[k].id)
                         /\ Matches[j].start <= Matches[k].start
           /\ found.total_events_found = Len(Fetched)
           /\ found.matching_events_count = Len(Matches)

C8_Witness ==
  /\ call.tool = "find_events_by_name_and_date"
  /\ Located
  /\ Len(Fetched) = 2
  /\ Len(Matches) = 2
  /\ Matches[1].id > Matches[2].id

\* C9: no slot the sweep returns overlaps a busy interval.
C9_SlotsAvoidBusy ==
  phase = "done"
     => \A k \in 1..Len(slots) : \A j \in 1..Len(busy) :
           ~ (slots[k].start < busy[j][2] /\ slots[k].end > busy[j][1])

C9_Witness ==
  /\ phase = "done"
  /\ Len(busy) = 2
  /\ busy[1][1] < busy[2][1] /\ busy[2][2] < busy[1][2]
  /\ Len(slots) = 2

\* C10: every slot the sweep returns is at least as long as the requested
\* duration, and never empty or of negative length.
C10_SlotsLongEnough ==
  phase = "done"
     => \A k \in 1..Len(slots) :
           /\ slots[k].end - slots[k].start >= duration
           /\ slots[k].end > slots[k].start

C10_Witness ==
  /\ phase = "done"
  /\ duration = 2
  /\ window = <<0, MaxSlotTime>>
  /\ busy = << <<1, 2>> >>
  /\ Len(slots) = 1
  /\ slots[1].start = 2

\* C11: the slots the sweep returns are pairwise disjoint and listed in
\* strictly ascending order of start: each slot ends at or before the start
\* of the next, whatever the busy intervals (overlapping, nested, sharing a
\* start).
C11_SlotsDisjointAscending ==
  phase = "done"
     => \A k \in 1..(Len(slots) - 1) :
           /\ slots[k].end <= slots[k + 1].start
           /\ slots[k].start < slots[k + 1].start

C11_Witness ==
  /\ phase = "done"
  /\ Len(busy) = 2
  /\ busy[1][1] = busy[2][1]
  /\ busy[2][2] < busy[1][2]
  /\ Len(slots) = 2
  /\ slots[1].end = busy[1][1]
  /\ slots[2].start = busy[1][2]

\* C12 as stated: with no busy interval the sweep returns the one slot
\* [W.start, W.end) when W.end - W.start >= the requested duration, and no
\* slot otherwise.
C12_EmptyBusyFullWindow ==
  (phase = "done" /\ busy = <<>>)
     => IF window[2] - window[1] >= duration
        THEN slots = << Slot(window[1], window[2], duration) >>
        ELSE slots = <<>>

\* C12 (amended): with no busy interval the sweep returns the one slot
\* [W.start, W.end) when W.end is after W.start and W.end - W.start >= the
\* requested duration, and no slot otherwise (an empty or reversed window
\* gives no slot even for a duration of 0).
C12_EmptyBusyNonEmptyWindow ==
  (phase = "done" /\ busy = <<>>)
     => IF window[2] > window[1] /\ window[2] - window[1] >= duration
        THEN slots = << Slot(window[1], window[2], duration) >>
        ELSE slots = <<>>

C12_Witness ==
  /\ phase = "done"
  /\ busy = <<>>
  /\ window = <<1, 3>>
  /\ duration = 2
  /\ slots = << [start |-> 1, end |-> 3, duration_minutes |-> 2] >>

\* the events of the store before the call that overlap the proposed
\* interval of the create call, in the backend's order
ExistingConflicts ==
  LET all == BackendList(pre, 0, MaxTime + 1)
  IN SelectSeq(all, LAMBDA e : e.start < call.end_iso /\ e.end > call.start_iso)

\* C13: create_calendar_event with confirmed=false and
\* skip_conflict_check=false returns conflict_detected with every
\* conflicting event whenever an existing event overlaps the proposed
\* interval, and pending_confirmation echoing the proposed fields whenever
\* none does; with skip_conflict_check=true it returns pending_confirmation
\* and reads nothing.
C13_ConflictOrPending ==
  (call.tool = "create_calendar_event" /\ ~call.confirmed)
     => LET pending ==
              /\ StatusOf(result) = "pending_confirmation"
              /\ result.event_details =
                    [summary |-> call.summary, start |-> call.start_iso,
                     end |-> call.end_iso]
        IN /\ store = pre
           /\ call.skip_conflict_check => (pending /\ found = Nothing)
           /\ ~call.skip_conflict_check =>
                 IF ExistingConflicts # <<>>
                 THEN /\ StatusOf(result) = "conflict_detected"
                      /\ result.conflicts = ExistingConflicts
                 ELSE pending

\* C14: check_time_slot_availability reports available=false exactly when
\* some event satisfies event.start < proposed.end and event.end >
\* proposed.start, conflicting_events holds exactly those events, and an
\* event that only touches the proposed interval is never among them.
C14_OverlapExactly ==
  (call.tool = "check_time_slot_availability" /\ "available" \in DOMAIN result)
     => /\ result.available = (ExistingConflicts = <<>>)
        /\ result.conflicting_events = ExistingConflicts
        /\ \A k \in 1..Len(result.conflicting_events) :
              /\ result.conflicting_events[k].start # call.end_iso
              /\ result.conflicting_events[k].end # call.start_iso
        /\ result.start_time = call.start_iso
        /\ result.end_time = call.end_iso
        /\ store = pre

C14_Witness ==
  /\ call.tool = "check_time_slot_availability"
  /\ "available" \in DOMAIN result
  /\ ~result.available
  /\ Len(result.conflicting_events) = 1
  /\ \E i \in DOMAIN pre : pre[i].end = call.start_iso
  /\ \E i \in DOMAIN pre : pre[i].start < call.start_iso /\ pre[i].end > call.start_iso

RECURSIVE AlwaysTransient(_, _, _, _, _)
\* every attempt at req from the given one on raises a transient error
AlwaysTransient(req, st, nid, script, attempt) ==
  \/ attempt >= max_retries
  \/ /\ Func(req, st, nid, script[attempt + 1]).exc \in {"extra_headers", "websocket"}
     /\ AlwaysTransient(req, Func(req, st, nid, script[attempt + 1]).store,
                        Func(req, st, nid, script[attempt + 1]).nextId,
                        script, attempt + 1)

\* the exception the first attempt at the request raises ("none" if none)
FirstExc == Func(retry.req, pre, retry.nextId, retry.script[1]).exc

\* C15: safe_api_call on an operation that raises a transient error on
\* every attempt calls it exactly 3 times (sleeping delay*1 and delay*2 in
\* between) and returns the connection_error result without raising; on an
\* operation whose first attempt raises a non-transient error it calls it
\* exactly once and re-raises that error.
C15_RetryThenGiveUp ==
  call.tool = "safe_api_call"
     => /\ AlwaysTransient(retry.req, pre, retry.nextId, retry.script, 0)
             => /\ retry.attempts = 3
                /\ retry.sleeps = <<delay, 2 * delay>>
                /\ result = connection_error
        /\ FirstExc \notin {"none", "extra_headers", "websocket"}
             => /\ retry.attempts = 1
                /\ retry.sleeps = <<>>
                /\ result = [raised |-> FirstExc]
                /\ store = pre

C15_Witness ==
  /\ call.tool = "safe_api_call"
  /\ retry.req.fn = "_create_event"
  /\ retry.script = <<"late", "lost", "late">>
  /\ retry.attempts = 3
  /\ result = connection_error
  /\ Len(log) = 2

\* the id of the event a confirmed update addresses
UpdateTarget ==
  IF call.tool = "update_calendar_event" THEN call.event_id ELSE Matches[1].id

\* field f of the event new is the supplied value v if one was supplied,
\* and otherwise is as in the event old (absent if absent there)
MergedField(old, new, f, v) ==
  IF v # None
  THEN f \in DOMAIN new /\ new[f] = v[1]
  ELSE /\ (f \in DOMAIN new) = (f \in DOMAIN old)
       /\ f \in DOMAIN old => new[f] = old[f]

\* C16: a confirmed update writes back an event in which start, end, title,
\* description and attendees each equal the supplied value when the
\* argument is not None and the value the backend held before when it is
\* None, every other field of the event is unchanged, and no other event
\* changes.
C16_UpdateMergesSuppliedFields ==
  (/\ call.tool \in {"update_calendar_event", "update_event_by_name_and_date"}
   /\ "patch" \in DOMAIN call
   /\ log # <<>>)
     => LET old == pre[UpdateTarget]
            new == store[UpdateTarget]
            p == call.patch
        IN /\ MergedField(old, new, "start", p.start_iso)
           /\ MergedField(old, new, "end", p.end_iso)
           /\ MergedField(old, new, "summary", p.summary)
           /\ MergedField(old, new, "description", p.description)
           /\ MergedField(old, new, "attendees",
                          IF p.attendees # None
                          THEN << [k \in 1..Len(p.attendees[1]) |->
                                     [email |-> p.attendees[1][k]]] >>
                          ELSE None)
           /\ \A f \in (DOMAIN old \cup DOMAIN new)
                        \ {"start", "end", "summary", "description", "attendees"} :
                 f \in DOMAIN old /\ f \in DOMAIN new /\ new[f] = old[f]
           /\ \A i \in DOMAIN pre \ {UpdateTarget} : Untouched(i)
           /\ DOMAIN store = DOMAIN pre
           /\ "id" \in DOMAIN result => result = Resource(store, UpdateTarget)

C16_Witness ==
  /\ call.tool = "update_event_by_name_and_date"
  /\ "patch" \in DOMAIN call
  /\ "id" \in DOMAIN result
  /\ pre[1] = FullEvent
  /\ call.patch.start_iso = None /\ call.patch.summary = << <<"b">> >>
  /\ call.patch.description = <<"">> /\ call.patch.attendees = None
  /\ store[1].summary = <<"b">> /\ store[1].description = ""
  /\ store[1].start = 1 /\ store[1].location = "room"

\* both flows inserted their event and the two events overlap
BothInsertedOverlapping ==
  /\ \A f \in Flows : flows[f].pc = "created" /\ "id" \in DOMAIN flows[f].answer
  /\ flows[1].answer.id # flows[2].answer.id
  /\ \A f \in Flows : flows[f].answer.id \in DOMAIN store
  /\ store[flows[1].answer.id].start < store[flows[2].answer.id].end
  /\ store[flows[1].answer.id].end > store[flows[2].answer.id].start

BothConfirmed ==
  /\ flows # NoFlows
  /\ "action" \in DOMAIN flows[AskedFirst]
  /\ \A r \in {AskedFirst, Direct} : flows[r].pc = "done"

\* C18: the gateway keeps no pending action between calls: the confirmed
\* call of a run that first called with confirmed=false (whatever that call
\* answered) returns the same result and leaves the same calendar as the
\* confirmed call made at once with the same arguments.
C18_ConfirmedCallIgnoresEarlierAsk ==
  BothConfirmed
     => /\ flows[AskedFirst].answer = flows[Direct].answer
        /\ flows[AskedFirst].store = flows[Direct].store
        /\ flows[AskedFirst].nextId = flows[Direct].nextId

C18_Witness ==
  /\ BothConfirmed
  /\ flows[Direct].action.tool = "create_calendar_event"
  /\ Cardinality(DOMAIN flows[Direct].store) = 2
  /\ "id" \in DOMAIN flows[AskedFirst].answer
  /\ flows[AskedFirst].store[1].start < flows[AskedFirst].store[2].end
  /\ flows[AskedFirst].store[1].end > flows[AskedFirst].store[2].start

\* ----------------------------------------------------------------------
\* C19: the search window follows the precedence ISO bounds > named day >
\* time preference > default; in particular, when window_start_iso,
\* window_end_iso and day are all given (and no time preference narrows the
\* window), the window searched is the one the ISO bounds give.
C19_IsoBoundsWinOverDay ==
  (/\ phase = "derived"
   /\ call.window_start_iso # None
   /\ call.window_end_iso # None
   /\ call.day # None
   /\ call.time_pref = None)
  => window = <<fromisoformat(call.window_start_iso[1]),
                fromisoformat(call.window_end_iso[1])>>

\* The start of the window as it stands when the time preference is handled.
PriorStart ==
  HandleDay(call.now, call.day,
            BoundsOrDefault(call.now, call.window_start_iso,
                            call.window_end_iso))[1]
\* h o'clock sharp on the date of dt
Sharp(dt, h) ==
  [date |-> dt.date, hour |-> h, minute |-> 0, second |-> 0, microsecond |-> 0]
PrefHas(word) ==
  /\ call.time_pref # None
  /\ Contains(word, Lower(call.time_pref[1]))

\* C20: a time preference of morning, afternoon or evening makes the window
\* exactly 08:00-12:00, 12:00-17:00 or 17:00-20:00 on the date of the
\* window's prior start, whatever that start was.
C20_PeriodExactHours ==
  phase = "derived" =>
    /\ PrefHas(<<"m", "o", "r", "n", "i", "n", "g">>) =>
         window = <<Sharp(PriorStart, 8), Sharp(PriorStart, 12)>>
    /\ (~PrefHas(<<"m", "o", "r", "n", "i", "n", "g">>) /\ PrefHas(<<"a", "f", "t", "e", "r", "n", "o", "o", "n">>)) =>
         window = <<Sharp(PriorStart, 12), Sharp(PriorStart, 17)>>
    /\ (~PrefHas(<<"m", "o", "r", "n", "i", "n", "g">>) /\ ~PrefHas(<<"a", "f", "t", "e", "r", "n", "o", "o", "n">>) /\ PrefHas(<<"e", "v", "e", "n", "i", "n", "g">>)) =>
         window = <<Sharp(PriorStart, 17), Sharp(PriorStart, 20)>>

\* ----------------------------------------------------------------------
\* The day a documented day phrase names, counted from the date of now: a
\* weekday name, "tomorrow", or "next <weekday>".
NamedDate(now, day_lower) ==
  IF day_lower = <<"t", "o", "m", "o", "r", "r", "o", "w">> THEN now.date + 1
  ELSE IF StartsWith(day_lower, <<"n", "e", "x", "t", " ">>)
  THEN now.date + ((WeekdayIndex(Remove(day_lower, <<"n", "e", "x", "t", " ">>)) - weekday(now)) % 7) + 7
  ELSE now.date + ((WeekdayIndex(day_lower) - weekday(now)) % 7)

\* C21: for every documented day phrase (a weekday name, "tomorrow",
\* "next <weekday>") and no time preference, the window searched is 08:00
\* to 20:00 of the day the phrase names; the day argument is never ignored.
C21_DayPhraseRestrictsWindow ==
  (phase = "derived" /\ call.day # None /\ call.time_pref = None) =>
    /\ window[1] = Sharp([date |-> NamedDate(call.now, Lower(call.day[1]))], 8)
    /\ window[2] = Sharp([date |-> NamedDate(call.now, Lower(call.day[1]))], 20)

\* ----------------------------------------------------------------------
\* C22: every slot the sweep returns carries a duration_minutes field equal
\* to the length of that slot, end - start.
C22_DurationFieldIsSlotLength ==
  phase = "done"
     => \A k \in 1..Len(slots) :
           slots[k].duration_minutes = slots[k].end - slots[k].start

\* ----------------------------------------------------------------------
\* The interval the claim gives an event: an all-day event is busy from
\* 00:00:00 of its first date to 23:59:59 of its last own date (the date
\* before the exclusive end date); a timed event from its start to its end.
OwnBusy(ev) ==
  IF HasT(GetTime(ev.start))
  THEN <<SpanStart(ev), SpanEnd(ev)>>
  ELSE <<SpanStart(ev), SpanEnd(ev) - 1>>

\* C23: the slot search and the conflict check treat an all-day event as
\* busy exactly from 00:00:00 to 23:59:59 of its own dates, and on no later
\* day: the busy list holds that interval for every listed event, and the
\* conflict check reports exactly the events whose interval overlaps the
\* requested slot.
C23_AllDayBusyOnOwnDates ==
  /\ (phase = "done" /\ call.tool = "find_available_slots")
       => \A k \in 1..Len(busy) :
             busy[k] = OwnBusy(ListResources(store, window[1], window[2])[k])
  /\ (phase = "done" /\ call.tool = "check_time_slot_availability")
       => \A i \in DOMAIN store :
             (\E k \in 1..Len(found) : found[k] = i)
               <=> Overlaps(OwnBusy(store[i])[1], OwnBusy(store[i])[2],
                            Timestamp(window[1]), Timestamp(window[2]))

\* ----------------------------------------------------------------------
\* the phrase of the call is a phrase of the date grammar, in some case
GrammarCall(tools) ==
  /\ call.tool \in tools
  /\ call.date_str # None
  /\ Lower(call.date_str[1]) \in GrammarPhrases
LowerOpt(date) == IF date = None THEN None ELSE <<Lower(date[1])>>

\* C24: date resolution is case-insensitive: list_calendar_events and
\* find_events_by_name_and_date resolve every upper/lower-case variant of a
\* phrase of the date grammar to the same range as the all-lowercase phrase.
C24_DateCaseInsensitive ==
  /\ GrammarCall({"list_calendar_events"})
       => result = ListRange(LowerOpt(call.date_str), LowerOpt(call.end_date), call.now)
  /\ GrammarCall({"find_events_by_name_and_date"})
       => result = FindRange(LowerOpt(call.date_str), call.now)

\* ----------------------------------------------------------------------
\* the call's phrase is exactly prefix + a weekday name, in lower case
PhraseIs(prefix) ==
  /\ call.tool # "none"
  /\ "date_str" \in DOMAIN call
  /\ call.date_str # None
  /\ \E i \in 1..Len(weekdays) : call.date_str[1] = prefix \o weekdays[i]
\* the index of the weekday a phrase of that form names, counted from 0
NamedWeekday(prefix) ==
  (CHOOSE i \in 1..Len(weekdays) : call.date_str[1] = prefix \o weekdays[i]) - 1
\* the date the call resolved its phrase to: the first day of the range
\* listed, the day of the instant returned, the day of the window searched
ResolvedDate ==
  IF call.tool = "parse_time_from_natural_language" THEN result.ret.date
  ELSE result.ret[1].date

\* C25: in list_calendar_events, find_events_by_name_and_date and
\* parse_time_from_natural_language, "this <weekday>" resolves to the day
\* (target - today) mod 7 days ahead, with 0 replaced by 7: always 1 to 7
\* days ahead and never today.
C25_ThisWeekdayOneToSeven ==
  (/\ PhraseIs(<<"t", "h", "i", "s", " ">>)
   /\ call.tool \in {"list_calendar_events", "find_events_by_name_and_date",
                     "parse_time_from_natural_language"})
  => /\ result.exc = "none"
     /\ ResolvedDate - call.now.date \in 1..7
     /\ ResolvedDate - call.now.date =
          (IF (NamedWeekday(<<"t", "h", "i", "s", " ">>) - weekday(call.now)) % 7 = 0
           THEN 7 ELSE (NamedWeekday(<<"t", "h", "i", "s", " ">>) - weekday(call.now)) % 7)

\* ----------------------------------------------------------------------
\* the call's phrase is a bare weekday name, in any case
BareWeekdayCall ==
  /\ call.tool # "none"
  /\ "date_str" \in DOMAIN call
  /\ call.date_str # None
  /\ IsWeekday(Lower(call.date_str[1]))

\* C26: in list_calendar_events, find_events_by_name_and_date,
\* parse_time_from_natural_language and the day argument of
\* find_available_slots, a bare weekday name resolves to today when it is
\* today's weekday and otherwise to its next occurrence, 1 to 6 days ahead:
\* never 7 days ahead and never a day in the past.
C26_BareWeekdayZeroToSix ==
  BareWeekdayCall
  => /\ result.exc = "none"
     /\ ResolvedDate - call.now.date \in 0..6
     /\ weekday([date |-> ResolvedDate]) = WeekdayIndex(Lower(call.date_str[1]))
     /\ (ResolvedDate = call.now.date)
          <=> (WeekdayIndex(Lower(call.date_str[1])) = weekday(call.now))

C26_Witness ==
  /\ BareWeekdayCall
  /\ call.tool = "find_available_slots"
  /\ call.date_str[1] = <<"T", "U", "E", "S", "D", "A", "Y">>
  /\ weekday(call.now) = 2
  /\ result.ret[1].date = call.now.date + 6
  /\ result.ret[2].date = call.now.date + 6

\* C27: "next <weekday>" resolves to a day 7 to 13 days ahead of today,
\* exactly 7 when the name is today's weekday, and never to a day within
\* the next 6 days.
C27_NextWeekdaySevenToThirteen ==
  (/\ PhraseIs(<<"n", "e", "x", "t", " ">>)
   /\ call.tool \in {"list_calendar_events", "find_events_by_name_and_date",
                     "parse_time_from_natural_language"})
  => /\ result.exc = "none"
     /\ ResolvedDate - call.now.date \in 7..13
     /\ weekday([date |-> ResolvedDate]) = NamedWeekday(<<"n", "e", "x", "t", " ">>)
     /\ (ResolvedDate - call.now.date = 7)
          <=> (NamedWeekday(<<"n", "e", "x", "t", " ">>) = weekday(call.now))

C27_Witness ==
  /\ PhraseIs(<<"n", "e", "x", "t", " ">>)
  /\ call.tool = "parse_time_from_natural_language"
  /\ NamedWeekday(<<"n", "e", "x", "t", " ">>) = weekday(call.now)
  /\ result.ret.date = call.now.date + 7
  /\ result.ret.hour = 9

\* C28: a date phrase that matches none of the date rules yields no date and
\* raises no error; the caller falls back to its default (the next 7 days in
\* list_calendar_events, the next 30 days in find_events_by_name_and_date,
\* today in parse_time_from_natural_language).
C28_UnparseableFallsBack ==
  (/\ call.tool # "none"
   /\ "date_str" \in DOMAIN call
   /\ call.date_str # None
   /\ Lower(call.date_str[1]) \in OtherPhrases)
  => /\ call.tool = "list_calendar_events"
          => result = Value(<<Midnight(call.now),
                              EndOfDay(PlusDays(call.now, ListDays))>>)
     /\ call.tool = "find_events_by_name_and_date"
          => result = Value(<<Midnight(call.now),
                              EndOfDay(PlusDays(call.now, DefaultDays))>>)
     /\ call.tool = "parse_time_from_natural_language"
          => (result.exc = "none" /\ result.ret.date = call.now.date)

\* ----------------------------------------------------------------------
\* parse_time_from_natural_language was called on a time string
TimeCall ==
  /\ call.tool = "parse_time_from_natural_language"
  /\ "time_str" \in DOMAIN call
\* the time string has one of the two forms, with its numbers in range
ValidTime ==
  \/ call.form = "24h" /\ call.hour \in 0..23 /\ call.minute \in 0..59
  \/ call.form = "12h" /\ call.hour \in 1..12 /\ call.minute \in 0..59

\* C29: parse_time_from_natural_language returns an instant exactly for the
\* inputs H:MM with hour 0-23 and minute 0-59 and H[:MM] am|pm with hour
\* 1-12 and minute 0-59 (minute 0 when omitted); every other input fails
\* with an invalid-time-format error; a returned instant has its hour in
\* 0-23 and its minute in 0-59.
C29_InstantExactlyForValidTimes ==
  TimeCall
  => /\ ValidTime
          => /\ result.exc = "none"
             /\ result.ret.hour \in 0..23
             /\ result.ret.minute = call.minute
             /\ result.ret.second = 0 /\ result.ret.microsecond = 0
     /\ ~ValidTime => result = ValueError("Invalid time format")

\* the date phrase of the call names a day its month does not have
NoSuchDay ==
  /\ call.date_str # None
  /\ MonthMatchSet(Lower(call.date_str[1])) # {}
  /\ ResolveDayForTime(Lower(call.date_str[1]), call.now).exc # "none"

\* C29 (amended): when the date phrase does not name a day its month lacks,
\* an instant is returned exactly for the valid time strings and every other
\* time string fails with an invalid-time-format error; when it does, the
\* call fails with the date's error whatever the time string.
C29_ValidTimesOnResolvableDate ==
  TimeCall
  => /\ (~NoSuchDay /\ ValidTime)
          => /\ result.exc = "none"
             /\ result.ret.hour \in 0..23
             /\ result.ret.minute = call.minute
             /\ result.ret.second = 0 /\ result.ret.microsecond = 0
     /\ (~NoSuchDay /\ ~ValidTime) => result = ValueError("Invalid time format")
     /\ NoSuchDay => result = ValueError("day is out of range for month")

C29_Witness ==
  /\ TimeCall
  /\ call.form = "12h"
  /\ call.time_str = <<"1", "1", ":", "5", "9", " ", "P", "M">>
  /\ call.date_str = <<<<"t", "o", "m", "o", "r", "r", "o", "w">>>>
  /\ result.exc = "none"
  /\ result.ret.date = call.now.date + 1
  /\ result.ret.hour = 23
  /\ result.ret.minute = 59

\* C30: for every hour h in 1..12 and minute m in 0..59 on the same date,
\* "h:mm am" parses to the same instant as the 24-hour string with hour
\* h mod 12, and "h:mm pm" to the same instant as the one with hour
\* (h mod 12) + 12; so 12 AM is hour 0, 12 PM hour 12 and 2 PM is 14:00.
C30_TwelveHourEqualsTwentyFour ==
  (TimeCall /\ call.form = "12h" /\ call.hour \in 1..12 /\ call.minute \in 0..59)
  => /\ call.period = <<"a", "m">>
          => result = parse_time_from_natural_language(
                        Plain(call.hour % 12) \o <<":">> \o TwoDigits(call.minute),
                        call.date_str, call.now)
     /\ call.period = <<"p", "m">>
          => result = parse_time_from_natural_language(
                        Plain((call.hour % 12) + 12) \o <<":">> \o TwoDigits(call.minute),
                        call.date_str, call.now)
     /\ result.exc = "none"
          => result.ret.hour = (call.hour % 12) + (IF call.period = <<"p", "m">> THEN 12 ELSE 0)

C30_Witness ==
  /\ TimeCall
  /\ call.time_str = <<"1", "2", " ", "A", "M">>
  /\ call.date_str = None
  /\ result.exc = "none"
  /\ result.ret.hour = 0
  /\ result.ret.minute = 0
  /\ result.ret.date = call.now.date

RECURSIVE Outcomes(_, _, _, _, _)
\* what func() answers at each attempt from the given one on, were every
\* attempt made: each attempt meets the backend as the one before left it
Outcomes(req, st, nid, script, attempt) ==
  IF attempt >= max_retries THEN <<>>
  ELSE <<Func(req, st, nid, script[attempt + 1])>>
       \o Outcomes(req, Func(req, st, nid, script[attempt + 1]).store,
                   Func(req, st, nid, script[attempt + 1]).nextId,
                   script, attempt + 1)

\* the attempt that ends the call: the first one that succeeds or raises an
\* error that is not transient, and the last one when there is none
LastAttempt(outs) ==
  IF \E i \in DOMAIN outs : outs[i].exc \notin {"extra_headers", "websocket"}
  THEN CHOOSE i \in DOMAIN outs :
         /\ outs[i].exc \notin {"extra_headers", "websocket"}
         /\ \A j \in 1..(i - 1) : outs[j].exc \in {"extra_headers", "websocket"}
  ELSE max_retries

\* the call made k attempts, slept delay*i after the i-th of them for each
\* i < k, and ended with what the k-th attempt answered
StopsAt(outs, k) ==
  /\ retry.attempts = k
  /\ retry.attempts <= max_retries
  /\ retry.sleeps = [i \in 1..(k - 1) |-> delay * i]
  /\ Len(retry.sleeps) < max_retries
  /\ outs[k].exc = "none" => result = outs[k].ret
  /\ outs[k].exc \notin {"none", "extra_headers", "websocket"}
       => result = [raised |-> outs[k].exc]

\* C31: for every sequence of outcomes of the wrapped operation,
\* safe_api_call makes at most 3 attempts, stops at the first success and
\* returns its result unchanged, stops at the first non-transient error (on
\* any attempt, also after transient failures) and re-raises it, and sleeps
\* delay*k after the k-th transient failure only when another attempt
\* follows (k = 1, 2; no sleep after the third failure).
C31_StopsAtFirstSuccessOrHardError ==
  call.tool = "safe_api_call"
     => StopsAt(Outcomes(retry.req, pre, retry.nextId, retry.script, 0),
                LastAttempt(Outcomes(retry.req, pre, retry.nextId, retry.script, 0)))

\* a delete whose first attempt is served but loses its answer: the second
\* attempt is refused by the backend and that error is raised after one sleep
C31_Witness ==
  /\ call.tool = "safe_api_call"
  /\ retry.req.fn = "_delete_event"
  /\ retry.script[1] = "late"
  /\ retry.attempts = 2
  /\ retry.sleeps = <<delay>>
  /\ "raised" \in DOMAIN result
  /\ result.raised = "HttpError"
  /\ pre # EmptyStore
  /\ store = EmptyStore

\* the call in progress is a confirmed create or a confirmed update
ConfirmedWrite ==
  /\ call.confirmed
  /\ call.tool \in {"create_calendar_event", "update_calendar_event",
                    "update_event_by_name_and_date"}

\* C32: every event written to the backend by a confirmed
\* create_calendar_event or a confirmed update has start < end, for all
\* start_iso/end_iso arguments.
C32_WrittenEventsAreIntervals ==
  ConfirmedWrite
     => \A i \in 1..Len(log) : store[log[i].id].start < store[log[i].id].end

VoiceCall == call.tool = "is_voice_confirmation"

\* the lowercased, trimmed input holds a keyword of the list as a substring
HoldsKeyword ==
  \E i \in 1..Len(confirmation_keywords) :
     Contains(confirmation_keywords[i], Strip(Lower(call.user_input)))

\* C33: is_voice_confirmation returns false for empty input and otherwise
\* returns true exactly when the lowercased, trimmed input contains at least
\* one keyword of its list as a substring anywhere; the prefix patterns never
\* change a false result to true.
C33_TrueExactlyOnKeyword ==
  VoiceCall
     => /\ call.user_input = <<>> => ~result.ret
        /\ call.user_input # <<>> => (result.ret <=> HoldsKeyword)
        /\ HoldsKeyword <=> call.keyword

\* C33 (amended): false for empty input; otherwise true exactly when the
\* lowercased, trimmed input contains a keyword as a substring anywhere, or
\* begins with the words of a two-word prefix pattern set apart by white
\* space other than one blank and followed by white space.
C33_TrueOnKeywordOrWidePattern ==
  VoiceCall
     => /\ call.user_input = <<>> => ~result.ret
        /\ call.user_input # <<>> => (result.ret <=> (call.keyword \/ call.wide))
        /\ HoldsKeyword <=> call.keyword
        /\ (result.ret /\ ~HoldsKeyword) => call.wide

C33_Witness ==
  /\ VoiceCall
  /\ call.user_input = <<" ", "N", "o", "t", " ", "O", "k", "a", "y">>
  /\ result.ret

\* the tick [t, t+1) lies in the window and in no busy interval
FreeTick(t) ==
  /\ window[1] <= t
  /\ t < window[2]
  /\ \A i \in 1..Len(busy) : ~(busy[i][1] <= t /\ t < busy[i][2])

\* [x, y) is a maximal sub-interval of the window free of all busy intervals
MaximalFree(x, y) ==
  /\ x < y
  /\ \A t \in x..(y - 1) : FreeTick(t)
  /\ ~FreeTick(x - 1)
  /\ ~FreeTick(y)

C36_PendingOnlyAfterCompletedCheck ==
  (call.tool = "create_calendar_event" /\ ~call.confirmed
      /\ ~call.skip_conflict_check /\ StatusOf(result) = "pending_confirmation")
     => /\ "available" \in DOMAIN found
        /\ found.available
        /\ ExistingConflicts = <<>>
        /\ StatusOf(found) # "connection_error"

\* the confirmed by-name call of a caller who was shown a prompt has returned
ConfirmedAfterPrompt ==
  /\ call.tool \in ByNameTools
  /\ call.confirmed
  /\ "event_name" \in DOMAIN call

\* the ids of the events whose title matches the call's name, in the
\* calendar as it was when the confirmed call began
MatchingNow ==
  { i \in DOMAIN pre :
      \/ Contains(Lower(call.event_name), Lower(pre[i].summary))
      \/ Contains(Lower(pre[i].summary), Lower(call.event_name)) }

\* the confirmed call reports success: "deleted", or the updated event
ReportsSuccess ==
  IF call.tool = "delete_event_by_name_and_date"
  THEN StatusOf(result) = "deleted"
  ELSE "id" \in DOMAIN result /\ "raised" \notin DOMAIN result

\* C37: a confirmed delete or update by name re-runs the lookup and mutates
\* the single event that matches at that moment, reporting success whatever
\* event the earlier pending_confirmation prompt showed; with no match or
\* several at that moment it mutates nothing.
C37_ConfirmedActsOnCurrentMatch ==
  ConfirmedAfterPrompt
     => /\ Cardinality(MatchingNow) = 1
             => /\ Len(log) = 1
                /\ log[1].id \in MatchingNow
                /\ ReportsSuccess
                /\ \A i \in DOMAIN pre \ MatchingNow : Untouched(i)
        /\ Cardinality(MatchingNow) # 1 => (log = <<>> /\ store = pre)

\* the calendar changed between the two calls and the confirmed call
\* deleted an event other than the one the prompt showed
C37_Witness ==
  /\ ConfirmedAfterPrompt
  /\ call.tool = "delete_event_by_name_and_date"
  /\ flows.prompt.event_details.id \notin DOMAIN pre
  /\ Len(log) = 1
  /\ log[1].id # flows.prompt.event_details.id
  /\ log[1].id \notin DOMAIN store
  /\ StatusOf(result) = "deleted"

\* the value an update's patch p supplies for the event key f
PatchValue(p, f) ==
  Supplied(p.start_iso, p.end_iso, p.summary, p.description, p.attendees)[f][1]

\* both updates have written, and the one written last is that of caller u
WroteLast(u) ==
  /\ Len(log) = 4
  /\ log[4].op = "update"
  /\ log[4].by = u

\* both callers fetched the event before either wrote it back
BothFetchedFirst == log[1].op = "get" /\ log[2].op = "get"

\* key f of the event is as it was before the two updates
AsBefore(f) ==
  IF f \in DOMAIN pre[1]
  THEN f \in DOMAIN store[1] /\ store[1][f] = pre[1][f]
  ELSE f \notin DOMAIN store[1]

\* C38: when two confirmed updates of the same event that supply disjoint
\* fields interleave between their get and update steps, the update that
\* writes last writes back the stale value it read for the other's fields,
\* so the other update's change is lost; run one after the other, both
\* changes stay.
C38_LastWriterOverwritesOtherFields ==
  \A u \in 1..2 :
     WroteLast(u)
       => /\ \A f \in PatchKeys(flows[u].patch) :
                store[1][f] = PatchValue(flows[u].patch, f)
          /\ BothFetchedFirst
               => \A f \in PatchKeys(flows[3 - u].patch) : AsBefore(f)
          /\ ~BothFetchedFirst
               => \A f \in PatchKeys(flows[3 - u].patch) :
                     store[1][f] = PatchValue(flows[3 - u].patch, f)

\* caller 1 renamed the event and caller 2, who fetched it before that,
\* moved it: the event is moved and has its old title again
C38_Witness ==
  /\ WroteLast(2)
  /\ BothFetchedFirst
  /\ flows[1].patch.summary = << <<"b">> >>
  /\ flows[2].patch.start_iso = <<0>>
  /\ store[1].start = 0
  /\ pre[1].summary = <<"a">>
  /\ store[1].summary = <<"a">>

\* event i of the calendar before the call has an empty title or none
Untitled(i) ==
  \/ "summary" \notin DOMAIN pre[i]
  \/ pre[i].summary = <<>>

\* event i of the calendar before the call is one the call's date range lists
InSearchWindow(i) ==
  /\ pre[i].end > DateWindow(call.date).min
  /\ pre[i].start < DateWindow(call.date).max

\* C39: an event with an empty or missing title in the search window
\* matches every query fragment of find_events_by_name_and_date, so it is
\* among the matches for any name and, when it is the only event in the
\* window, is the single match that a confirmed delete or update by name
\* acts on.
C39_UntitledMatchesEveryName ==
  (call.tool \in LocatorTools /\ Located)
     => \A i \in DOMAIN pre :
          (Untitled(i) /\ InSearchWindow(i))
             => /\ \E k \in 1..Len(Matches) : Matches[k].id = i
                /\ (\A j \in DOMAIN pre \ {i} : ~InSearchWindow(j))
                      => /\ Len(Matches) = 1
                         /\ (call.tool \in ByNameTools /\ call.confirmed
                               /\ Returned /\ StatusOf(result) # "connection_error")
                              => /\ log # <<>>
                                 /\ \A k \in 1..Len(log) : log[k].id = i

\* a confirmed delete by the name "b" removed the only event of the
\* calendar, which has no title
C39_Witness ==
  /\ call.tool = "delete_event_by_name_and_date"
  /\ call.confirmed
  /\ call.event_name = <<"b">>
  /\ DOMAIN pre = {1}
  /\ "summary" \notin DOMAIN pre[1]
  /\ StatusOf(result) = "deleted"
  /\ store = EmptyStore

====
